---- MODULE Spec2Model ----
(***************************************************************************)
(* Model of the heap snapshot analysis engine of                           *)
(* front_end/entrypoints/heap_snapshot_worker/HeapSnapshot.ts:             *)
(* the passes of HeapSnapshot.initialize over the flat node and edge       *)
(* arrays of a parsed profile.  Arrays are functions over 0..n-1 so that   *)
(* ordinals, node indexes (ordinal * nodeFieldCount) and edge indexes      *)
(* (k * edgeFieldsCount) are the numbers the source computes with.         *)
(***************************************************************************)
EXTENDS Integers, Sequences, FiniteSets, TLC

\* ------------------------------------------------------------------ bounds
MaxNodes == 3
MaxEdges == 3

\* ------------------------------------------------------- typed-array helpers
\* new Uint32Array(n): zero filled
ZeroArray(n) == [i \in 0 .. n - 1 |-> 0]

\* typed-array element write: a write outside the array is ignored
Store(arr, i, v) == IF i \in DOMAIN arr THEN [arr EXCEPT ![i] = v] ELSE arr

\* typed-array element read: outside the array the read yields undefined,
\* which every use below converts to the number 0 (ToUint32(undefined))
Load(arr, i) == IF i \in DOMAIN arr THEN arr[i] ELSE 0

ArrayLen(arr) == Cardinality(DOMAIN arr)

\* ------------------------------------------------------------ meta-schema
node_fields == <<"type", "name", "id", "self_size", "edge_count", "trace_node_id", "detachedness">>
edge_fields == <<"type", "name_or_index", "to_node">>
node_types == <<"hidden", "array", "string", "object", "code", "closure", "regexp", "number",
                "native", "synthetic", "concatenated string", "sliced string">>
\* edge types of the profile, with 'invisible' pushed by initialize
edgeTypes == <<"context", "element", "property", "internal", "hidden", "shortcut", "weak", "invisible">>

\* Array.prototype.indexOf on a sequence, 0-based, -1 when absent
IndexOf(seq, x) == IF \E i \in 1 .. Len(seq) : seq[i] = x
                   THEN (CHOOSE i \in 1 .. Len(seq) : seq[i] = x /\ \A j \in 1 .. i - 1 : seq[j] # x) - 1
                   ELSE -1

nodeTypeOffset == IndexOf(node_fields, "type")
nodeNameOffset == IndexOf(node_fields, "name")
nodeIdOffset == IndexOf(node_fields, "id")
nodeSelfSizeOffset == IndexOf(node_fields, "self_size")
nodeEdgeCountOffset == IndexOf(node_fields, "edge_count")
nodeDetachednessAndClassIndexOffset == IndexOf(node_fields, "detachedness")
nodeFieldCount == Len(node_fields)

nodeArrayType == IndexOf(node_types, "array")
nodeHiddenType == IndexOf(node_types, "hidden")
nodeObjectType == IndexOf(node_types, "object")
nodeNativeType == IndexOf(node_types, "native")
nodeSyntheticType == IndexOf(node_types, "synthetic")
nodeStringType == IndexOf(node_types, "string")
nodeConsStringType == IndexOf(node_types, "concatenated string")
nodeCodeType == IndexOf(node_types, "code")
nodeClosureType == IndexOf(node_types, "closure")
nodeRegExpType == IndexOf(node_types, "regexp")

edgeFieldsCount == Len(edge_fields)
edgeTypeOffset == IndexOf(edge_fields, "type")
edgeNameOffset == IndexOf(edge_fields, "name_or_index")
edgeToNodeOffset == IndexOf(edge_fields, "to_node")

edgeElementType == IndexOf(edgeTypes, "element")
edgePropertyType == IndexOf(edgeTypes, "property")
edgeHiddenType == IndexOf(edgeTypes, "hidden")
edgeInternalType == IndexOf(edgeTypes, "internal")
edgeShortcutType == IndexOf(edgeTypes, "shortcut")
edgeWeakType == IndexOf(edgeTypes, "weak")
edgeInvisibleType == IndexOf(edgeTypes, "invisible")

\* ------------------------------------------------------------------ state
VARIABLES
    nodes,                  \* profile.nodes, flat, nodeFieldCount numbers per node
    containmentEdges,       \* profile.edges, flat, edgeFieldsCount numbers per edge
    strings,                \* profile.strings, 0-based, append-only
    rootNodeIndexInternal,  \* profile.snapshot.root_index
    serialized,             \* history: profile.nodes as deserialized
    firstEdgeIndexes,
    retainingNodes,
    retainingEdges,
    firstRetainerIndex,
    flags,                  \* JSHeapSnapshot.flags, one bit set per node
    nodeDistances,
    postOrderIndex2NodeOrdinal,  \* result of buildPostOrderIndex, held by initialize
    nodeOrdinal2PostOrderIndex,
    dominatorsTree,
    retainedSizes,
    firstDominatedNodeIndex,
    dominatedNodes,
    pc,                     \* the pass of initialize() that runs next
    error,                  \* message of the Error that ended initialize, or ""
    aggregates,             \* #aggregates: filter key -> aggregates by class name
    aggregatesSortedFlags,  \* #aggregatesSortedFlags: the keys whose idxs are sorted
    snapshotDiffs,          \* #snapshotDiffs: base snapshot id -> diff by class name
    ignoredNodesInRetainersView,
    ignoredEdgesInRetainersView,
    nodeDistancesForRetainersView,  \* <<>> stands for undefined
    iterationOrder,         \* HeapSnapshotItemProvider.iterationOrder, <<>> for null
    currentComparator,      \* its comparator, <<>> for null
    sortedPrefixLength,
    sortedSuffixLength,
    cancelled,              \* the cancellation flag of the host
    called,                 \* history: the last call of the host with its arguments
    reply                   \* history: what that call returned or threw

\* the state behind the queries of an initialized snapshot
aggregateVars == <<aggregates, aggregatesSortedFlags, snapshotDiffs>>
retainersViewVars == <<ignoredNodesInRetainersView, ignoredEdgesInRetainersView, nodeDistancesForRetainersView>>
providerVars == <<iterationOrder, currentComparator, sortedPrefixLength, sortedSuffixLength>>
queryVars == <<aggregateVars, retainersViewVars, providerVars, cancelled, called, reply>>

vars == <<nodes, containmentEdges, strings, rootNodeIndexInternal, serialized,
          firstEdgeIndexes, retainingNodes, retainingEdges, firstRetainerIndex, flags, nodeDistances,
          postOrderIndex2NodeOrdinal, nodeOrdinal2PostOrderIndex, dominatorsTree,
          retainedSizes, firstDominatedNodeIndex, dominatedNodes, pc, error, queryVars>>

\* what no pass of initialize writes: the edges and the root of the profile,
\* and the state behind the queries
inputVars == <<containmentEdges, rootNodeIndexInternal, serialized, queryVars>>
retainerVars == <<retainingNodes, retainingEdges, firstRetainerIndex>>
indexVars == <<firstEdgeIndexes, retainingNodes, retainingEdges, firstRetainerIndex>>
postOrderVars == <<postOrderIndex2NodeOrdinal, nodeOrdinal2PostOrderIndex>>
dominatedVars == <<firstDominatedNodeIndex, dominatedNodes>>
treeVars == <<dominatorsTree, retainedSizes, firstDominatedNodeIndex, dominatedNodes>>

nodeCount == ArrayLen(nodes) \div nodeFieldCount
edgeCount == ArrayLen(containmentEdges) \div edgeFieldsCount

\* ------------------------------------------------------------ JS strings
startsWith(s, prefix) == Len(s) >= Len(prefix) /\ SubSeq(s, 1, Len(prefix)) = prefix
endsWith(s, suffix) == Len(s) >= Len(suffix) /\ SubSeq(s, Len(s) - Len(suffix) + 1, Len(s)) = suffix
CharAt(s, i) == SubSeq(s, i, i)
Digits == {"0", "1", "2", "3", "4", "5", "6", "7", "8", "9"}
DigitValue(c) == CASE c = "0" -> 0 [] c = "1" -> 1 [] c = "2" -> 2 [] c = "3" -> 3 [] c = "4" -> 4
                   [] c = "5" -> 5 [] c = "6" -> 6 [] c = "7" -> 7 [] c = "8" -> 8 [] c = "9" -> 9

\* parseInt(s, 10) of a string of decimal digits
RECURSIVE ParseDigits(_, _)
ParseDigits(s, acc) == IF Len(s) = 0 THEN acc
                       ELSE ParseDigits(Tail(s), acc * 10 + DigitValue(Head(s)))

\* number of leading decimal digits of s
RECURSIVE LeadingDigits(_)
LeadingDigits(s) == IF Len(s) > 0 /\ Head(s) \in Digits THEN 1 + LeadingDigits(Tail(s)) ELSE 0

\* number of trailing decimal digits of s
RECURSIVE TrailingDigits(_)
TrailingDigits(s) == IF Len(s) > 0 /\ CharAt(s, Len(s)) \in Digits
                     THEN 1 + TrailingDigits(SubSeq(s, 1, Len(s) - 1)) ELSE 0

\* ------------------------------------------------ profiles (bounded inputs)
StrEmpty == ""
StrObject == "Object"
StrA == "a"
StrWeakMapPair == "0 / part of key (K @5) -> value (V @7) pair in WeakMap (table @3)"

\* profile.strings of the generated profiles
ProfileStrings == <<StrEmpty, StrObject, StrA, StrWeakMapPair, "(Document DOM trees)", "sloppy_function_map",
                    "system / NativeContext", "(map descriptors)", "div", "Detached div",
                    "Map", "(system)", "first", "second", "aa">>

ToArray(seq) == [i \in 0 .. Len(seq) - 1 |-> seq[i + 1]]
StringIndex(str) == IndexOf(ProfileStrings, str)

\* an edge of a generated profile: source ordinal, type, name_or_index, target node index
EdgeKinds == {<<edgePropertyType, StringIndex(StrA)>>,
              <<edgeWeakType, StringIndex(StrA)>>,
              <<edgeShortcutType, StringIndex(StrA)>>,
              <<edgeInternalType, StringIndex(StrWeakMapPair)>>}

\* no edge of a generated profile points at the root
EdgeChoices(n, r, kinds) == [src : 0 .. n - 1, kind : kinds, to : (0 .. n - 1) \ {r \div nodeFieldCount}]

\* edge lists of at most MaxEdges edges, grouped by source node as the format requires
EdgeListsOver(choices, max) ==
    {es \in UNION {[1 .. k -> choices] : k \in 0 .. max} :
        \A i \in 1 .. Len(es) - 1 : es[i].src <= es[i + 1].src}

EdgeLists(n, r, kinds) == EdgeListsOver(EdgeChoices(n, r, kinds), MaxEdges)

FlatEdges(es) ==
    [i \in 0 .. Len(es) * edgeFieldsCount - 1 |->
        LET e == es[(i \div edgeFieldsCount) + 1]
            off == i % edgeFieldsCount
        IN  IF off = edgeTypeOffset THEN e.kind[1]
            ELSE IF off = edgeNameOffset THEN e.kind[2]
            ELSE e.to * nodeFieldCount]

\* node records: type, name, self size, detachedness per ordinal; id = 2 * ordinal + 1
FlatNodes(n, type, name, size, det, es) ==
    [i \in 0 .. n * nodeFieldCount - 1 |->
        LET o == i \div nodeFieldCount
            off == i % nodeFieldCount
        IN  IF off = nodeTypeOffset THEN type[o]
            ELSE IF off = nodeNameOffset THEN name[o]
            ELSE IF off = nodeIdOffset THEN 2 * o + 1
            ELSE IF off = nodeSelfSizeOffset THEN size[o]
            ELSE IF off = nodeEdgeCountOffset THEN Cardinality({k \in 1 .. Len(es) : es[k].src = o})
            ELSE IF off = nodeDetachednessAndClassIndexOffset THEN det[o]
            ELSE 0]

RECURSIVE Pow2(_)
Pow2(k) == IF k = 0 THEN 1 ELSE 2 * Pow2(k - 1)

\* snapshot.root_index: any node of the profile
RootChoices(n) == {o * nodeFieldCount : o \in 0 .. n - 1}

\* a profile from the kind [type, name, det] of every node; self sizes 1, 2, 4, ...
\* and 0 for the root
KindProfile(n, r, kind, es) ==
    [nodes |-> FlatNodes(n, [o \in 0 .. n - 1 |-> kind[o].type],
                            [o \in 0 .. n - 1 |-> StringIndex(kind[o].name)],
                            [o \in 0 .. n - 1 |-> IF o * nodeFieldCount = r THEN 0 ELSE Pow2(o)],
                            [o \in 0 .. n - 1 |-> kind[o].det], es),
     edges |-> FlatEdges(es),
     root_index |-> r]

RootKind == [type |-> nodeSyntheticType, name |-> StrEmpty, det |-> 0]
ObjectKind == [type |-> nodeObjectType, name |-> StrObject, det |-> 0]

\* Object graphs: a synthetic root and plain objects
GraphProfile(n, r, es) ==
    KindProfile(n, r, [o \in 0 .. n - 1 |-> IF o * nodeFieldCount = r THEN RootKind ELSE ObjectKind], es)

\* the root first, the other nodes of the given kinds
KindAssignments(n, kinds) ==
    { [o \in 0 .. n - 1 |-> IF o = 0 THEN RootKind ELSE k[o]] : k \in [1 .. n - 1 -> kinds] }

\* ------------------------------------------------------------ initialize
\* constructor and the allocations at the head of initialize()
InitWith(profile, profileStrings) ==
    /\ nodes = profile.nodes
    /\ containmentEdges = profile.edges
    /\ strings = ToArray(profileStrings)
    /\ rootNodeIndexInternal = profile.root_index
    /\ serialized = profile.nodes
    /\ firstEdgeIndexes = ZeroArray(ArrayLen(profile.nodes) \div nodeFieldCount + 1)
    /\ retainingNodes = ZeroArray(ArrayLen(profile.edges) \div edgeFieldsCount)
    /\ retainingEdges = ZeroArray(ArrayLen(profile.edges) \div edgeFieldsCount)
    /\ firstRetainerIndex = ZeroArray(ArrayLen(profile.nodes) \div nodeFieldCount + 1)
    /\ flags = ZeroArray(ArrayLen(profile.nodes) \div nodeFieldCount)
    /\ nodeDistances = ZeroArray(ArrayLen(profile.nodes) \div nodeFieldCount)
    /\ postOrderIndex2NodeOrdinal = <<>>
    /\ nodeOrdinal2PostOrderIndex = <<>>
    /\ dominatorsTree = <<>>
    /\ retainedSizes = ZeroArray(ArrayLen(profile.nodes) \div nodeFieldCount)
    /\ firstDominatedNodeIndex = ZeroArray(ArrayLen(profile.nodes) \div nodeFieldCount + 1)
    /\ dominatedNodes = ZeroArray(ArrayLen(profile.nodes) \div nodeFieldCount - 1)
    /\ pc = "buildEdgeIndexes"
    /\ error = ""
    /\ aggregates = <<>>
    /\ aggregatesSortedFlags = {}
    /\ snapshotDiffs = <<>>
    /\ ignoredNodesInRetainersView = {}
    /\ ignoredEdgesInRetainersView = {}
    /\ nodeDistancesForRetainersView = <<>>
    /\ iterationOrder = <<>>
    /\ currentComparator = <<>>
    /\ sortedPrefixLength = 0
    /\ sortedSuffixLength = 0
    /\ cancelled = FALSE
    /\ called = <<>>
    /\ reply = <<>>

\* the generated profiles share one table of strings
InitFrom(profile) == InitWith(profile, ProfileStrings)

\* a profile whose first edge has a to_node that is not the index of a node
Misaligned(profile, off) ==
    [profile EXCEPT !.edges[edgeToNodeOffset] = profile.edges[edgeToNodeOffset] + off]

\* four nodes in a row, the root first, each with one edge to the next
ChainLength == 4
ChainEdges(kinds) == [i \in 1 .. ChainLength - 1 |-> [src |-> i - 1, kind |-> kinds[i], to |-> i]]

InitGraph ==
    \E n \in 1 .. MaxNodes : \E r \in RootChoices(n) : \E es \in EdgeLists(n, r, EdgeKinds) :
        InitFrom(GraphProfile(n, r, es))

InitMisaligned ==
    \E n \in 2 .. MaxNodes : \E r \in RootChoices(n) : \E e \in EdgeChoices(n, r, EdgeKinds) :
        \E off \in 1 .. nodeFieldCount - 1 :
            InitFrom(Misaligned(GraphProfile(n, r, <<e>>), off))

InitChain ==
    \E kinds \in [1 .. ChainLength - 1 -> EdgeKinds] :
        InitFrom(GraphProfile(ChainLength, 0, ChainEdges(kinds)))

Init == InitGraph \/ InitMisaligned

\* the nodes and edges the distance filter tells apart
MaxFewEdges == 2
DistNodeKinds == {ObjectKind,
                  RootKind,
                  [type |-> nodeSyntheticType, name |-> "(Document DOM trees)", det |-> 0],
                  [type |-> nodeHiddenType, name |-> "system / NativeContext", det |-> 0],
                  [type |-> nodeArrayType, name |-> "(map descriptors)", det |-> 0]}
DistEdgeKinds == {<<edgePropertyType, StringIndex(StrA)>>,
                  <<edgePropertyType, StringIndex("sloppy_function_map")>>,
                  <<edgeWeakType, StringIndex(StrA)>>,
                  <<edgeElementType, 4>>,
                  <<edgeInternalType, StringIndex(StrWeakMapPair)>>}

InitDist ==
    \E n \in 1 .. MaxNodes : \E kind \in KindAssignments(n, DistNodeKinds) :
        \E es \in EdgeListsOver(EdgeChoices(n, 0, DistEdgeKinds), MaxFewEdges) :
            InitFrom(KindProfile(n, 0, kind, es))

\* multigraphs of the distance search: up to MaxEdges property or weak
\* edges between any two nodes, several of them from the root to one user
\* root, and edges that lead back to the root
SeedEdgeKinds == {<<edgePropertyType, StringIndex(StrA)>>, <<edgeWeakType, StringIndex(StrA)>>}
InitSeeds ==
    \E n \in 2 .. MaxNodes :
        \E es \in EdgeListsOver([src : 0 .. n - 1, kind : SeedEdgeKinds, to : 0 .. n - 1], MaxEdges) :
            InitFrom(GraphProfile(n, 0, es))

\* native and plain nodes in every serialized DOM link state they come in,
\* with edges among the nodes other than the root
MaxDOMNodes == 4
DOMNodeKinds == {[type |-> nodeNativeType, name |-> "div", det |-> 0],
                 [type |-> nodeNativeType, name |-> "div", det |-> 1],
                 [type |-> nodeNativeType, name |-> "div", det |-> 2],
                 ObjectKind,
                 [type |-> nodeObjectType, name |-> StrObject, det |-> 1]}
DOMEdgeKinds == {<<edgePropertyType, StringIndex(StrA)>>,
                 <<edgeWeakType, StringIndex(StrA)>>,
                 <<edgeHiddenType, 0>>}

InitDOM ==
    \E n \in 2 .. MaxDOMNodes : \E kind \in KindAssignments(n, DOMNodeKinds) :
        \E es \in EdgeListsOver([src : 1 .. n - 1, kind : DOMEdgeKinds, to : 1 .. n - 1], MaxFewEdges) :
            InitFrom(KindProfile(n, 0, kind, es))

\* a profile with one field of its nodes replaced: value[o] for the node of ordinal o
WithNodeField(profile, offset, value) ==
    [profile EXCEPT !.nodes = [i \in DOMAIN @ |-> IF i % nodeFieldCount = offset
                                                  THEN value[i \div nodeFieldCount] ELSE @[i]]]

\* the classes the aggregates tell apart: plain objects, an object that takes
\* no space of its own, a hidden node and an object named as the class of the
\* hidden nodes, a native node, an array
MaxClassNodes == 3
ClassNodeKinds == {ObjectKind,
                   [type |-> nodeObjectType, name |-> "Map", det |-> 0],
                   [type |-> nodeHiddenType, name |-> StrEmpty, det |-> 0],
                   [type |-> nodeObjectType, name |-> "(system)", det |-> 0],
                   [type |-> nodeNativeType, name |-> "div", det |-> 0],
                   [type |-> nodeArrayType, name |-> StrEmpty, det |-> 0]}

\* the ids of the nodes by ordinal: in the order of the nodes, and out of it
NodeIdOrders == {<<1, 3, 5>>, <<1, 7, 3>>, <<1, 11, 4>>}

\* the self sizes by ordinal: some node other than the root takes no space
NodeSizes == {<<0, 2, 4>>, <<0, 0, 4>>}

InitClasses ==
    \E n \in 2 .. MaxClassNodes : \E kind \in KindAssignments(n, ClassNodeKinds) :
        \E ids \in NodeIdOrders : \E sizes \in NodeSizes :
            \E es \in EdgeListsOver([src : {0}, kind : {<<edgePropertyType, StringIndex(StrA)>>}, to : 1 .. n - 1], 1) :
                InitFrom(WithNodeField(WithNodeField(KindProfile(n, 0, kind, es), nodeIdOffset, ToArray(ids)),
                                       nodeSelfSizeOffset, ToArray(sizes)))

\* strings: sequential strings named '', 'a' and 'aa', concatenated strings
\* whose parts are the targets of their internal edges 'first' and 'second',
\* and an object named as a string; parts come after the string they are part of
MaxStringNodes == 4
StringNodeKinds == {[type |-> nodeStringType, name |-> StrA, det |-> 0],
                    [type |-> nodeStringType, name |-> "aa", det |-> 0],
                    [type |-> nodeStringType, name |-> StrEmpty, det |-> 0],
                    [type |-> nodeConsStringType, name |-> StrA, det |-> 0],
                    [type |-> nodeObjectType, name |-> StrA, det |-> 0]}
StringEdgeKinds == {<<edgeInternalType, StringIndex("first")>>,
                    <<edgeInternalType, StringIndex("second")>>,
                    <<edgePropertyType, StringIndex("first")>>}

InitStrings ==
    \E n \in 2 .. MaxStringNodes : \E kind \in KindAssignments(n, StringNodeKinds) :
        \E es \in EdgeListsOver({e \in [src : 1 .. n - 1, kind : StringEdgeKinds, to : 1 .. n - 1] :
                                    e.src < e.to /\ kind[e.src].type = nodeConsStringType}, MaxFewEdges) :
            InitFrom(KindProfile(n, 0, kind, es))

\* the nodes a provider pages through: plain objects without edges, some of
\* the same self size
MaxItems == 4
ItemSizes == {<<0, 4, 2, 4>>, <<0, 2, 4, 8>>}

InitItems ==
    \E n \in 3 .. MaxItems : \E sizes \in ItemSizes :
        InitFrom(WithNodeField(GraphProfile(n, 0, <<>>), nodeSelfSizeOffset, ToArray(sizes)))

\* the root with an edge to the first of three nodes that are plain, hidden,
\* array or synthetic, and up to MaxFewEdges further property or weak edges
MaxOwnerNodes == 4
OwnerNodeKinds == {ObjectKind,
                   RootKind,
                   [type |-> nodeHiddenType, name |-> "system / NativeContext", det |-> 0],
                   [type |-> nodeArrayType, name |-> "(map descriptors)", det |-> 0]}
InitOwners ==
    \E kind \in KindAssignments(MaxOwnerNodes, OwnerNodeKinds) :
        \E es \in EdgeListsOver([src : 0 .. MaxOwnerNodes - 1,
                                 kind : {<<edgePropertyType, StringIndex(StrA)>>,
                                         <<edgeWeakType, StringIndex(StrA)>>},
                                 to : 1 .. MaxOwnerNodes - 1], MaxFewEdges) :
            InitFrom(KindProfile(MaxOwnerNodes, 0, kind,
                                 <<[src |-> 0, kind |-> <<edgePropertyType, StringIndex(StrA)>>, to |-> 1]>> \o es))

\* up to MaxFewEdges edges of every type isEssentialEdge tells apart, among
\* them internal edges with and without the name of a WeakMap pair, from the
\* root, from the node whose id is that of the table, and from another node
EssentialEdgeKinds == EdgeKinds \cup {<<edgeInternalType, StringIndex(StrA)>>}
InitEssential ==
    \E n \in 2 .. MaxNodes : \E r \in RootChoices(n) :
        \E es \in EdgeListsOver(EdgeChoices(n, r, EssentialEdgeKinds), MaxFewEdges) :
            InitFrom(GraphProfile(n, r, es))

\* retainers of one object: two objects below the root and up to MaxEdges
\* edges from them to the last node, of the names and types the sort of the
\* edges tells apart
MaxRetainerNodes == 4
StrProto == "__proto__"
EdgeNameStrings == ProfileStrings \o <<StrProto>>
RetainerEdgeKinds == {<<edgePropertyType, StringIndex(StrA)>>,
                      <<edgePropertyType, StringIndex("aa")>>,
                      <<edgePropertyType, IndexOf(EdgeNameStrings, StrProto)>>,
                      <<edgeShortcutType, StringIndex(StrWeakMapPair)>>,
                      <<edgeElementType, 4>>,
                      <<edgeElementType, 10>>}
InitRetainers ==
    \E es \in EdgeListsOver([src : 1 .. 2, kind : RetainerEdgeKinds, to : {MaxRetainerNodes - 1}], MaxEdges) :
        InitWith(GraphProfile(MaxRetainerNodes, 0,
                              <<[src |-> 0, kind |-> <<edgePropertyType, StringIndex(StrA)>>, to |-> 1],
                                [src |-> 0, kind |-> <<edgePropertyType, StringIndex("aa")>>, to |-> 2]>> \o es),
                 EdgeNameStrings)

\* nodes the depth-first round does not reach: a WeakMap table T below the
\* root with property, weak and WeakMap pair edges to three more nodes, and
\* property edges from these to T and to one another, MaxOrphanEdges in all
MaxOrphanNodes == 5
MaxOrphanEdges == 4
InitOrphans ==
    \E es \in EdgeListsOver([src : {1}, kind : {<<edgePropertyType, StringIndex(StrA)>>,
                                                <<edgeWeakType, StringIndex(StrA)>>,
                                                <<edgeInternalType, StringIndex(StrWeakMapPair)>>},
                             to : 2 .. MaxOrphanNodes - 1]
                            \cup [src : 2 .. MaxOrphanNodes - 1, kind : {<<edgePropertyType, StringIndex(StrA)>>},
                                  to : 1 .. MaxOrphanNodes - 1], MaxOrphanEdges) :
        InitFrom(GraphProfile(MaxOrphanNodes, 0,
                              <<[src |-> 0, kind |-> <<edgePropertyType, StringIndex(StrA)>>, to |-> 1]>> \o es))

\* objects and maps below one another: a child of the root and up to
\* MaxFewEdges more property or WeakMap pair edges between the other nodes,
\* every node taking space or some node taking none
MaxNestedNodes == 4
NestedSizes == {<<0, 2, 4, 8>>, <<0, 2, 0, 8>>}
InitNested ==
    \E kind \in KindAssignments(MaxNestedNodes, {ObjectKind, [type |-> nodeObjectType, name |-> "Map", det |-> 0]}) :
        \E sizes \in NestedSizes :
            \E es \in EdgeListsOver([src : 1 .. MaxNestedNodes - 1,
                                     kind : {<<edgePropertyType, StringIndex(StrA)>>,
                                             <<edgeInternalType, StringIndex(StrWeakMapPair)>>},
                                     to : 1 .. MaxNestedNodes - 1], MaxFewEdges) :
                InitFrom(WithNodeField(KindProfile(MaxNestedNodes, 0, kind,
                                                   <<[src |-> 0, kind |-> <<edgePropertyType, StringIndex(StrA)>>, to |-> 1]>> \o es),
                                       nodeSelfSizeOffset, ToArray(sizes)))

\* profiles of MaxGateNodes nodes with the root first or last and up to
\* MaxEdges property or shortcut edges: page objects behind shortcut edges
MaxGateNodes == 4
InitGate ==
    \E r \in {0, (MaxGateNodes - 1) * nodeFieldCount} :
        \E es \in EdgeLists(MaxGateNodes, r, {<<edgePropertyType, StringIndex(StrA)>>,
                                              <<edgeShortcutType, StringIndex(StrA)>>}) :
            InitFrom(GraphProfile(MaxGateNodes, r, es))

\* a WeakMap table T below the root, a key K and a value V, with up to
\* MaxEphemeronEdges property or WeakMap pair edges from T and K
MaxEphemeronEdges == 3
InitEphemeron ==
    \E n \in 3 .. MaxNodes + 1 :
        \E es \in EdgeListsOver([src : 1 .. 2,
                                 kind : {<<edgePropertyType, StringIndex(StrA)>>,
                                         <<edgeInternalType, StringIndex(StrWeakMapPair)>>},
                                 to : 2 .. n - 1], MaxEphemeronEdges) :
            InitFrom(GraphProfile(n, 0, <<[src |-> 0, kind |-> <<edgePropertyType, StringIndex(StrA)>>, to |-> 1]>>
                                        \o es))

\* for (nodeOrdinal = 0, edgeIndex = 0; nodeOrdinal < nodeCount; ++nodeOrdinal)
RECURSIVE EdgeIndexesLoop(_, _, _)
EdgeIndexesLoop(nodeOrdinal, edgeIndex, arr) ==
    IF nodeOrdinal >= nodeCount THEN arr
    ELSE EdgeIndexesLoop(nodeOrdinal + 1,
                         edgeIndex + nodes[nodeOrdinal * nodeFieldCount + nodeEdgeCountOffset] * edgeFieldsCount,
                         Store(arr, nodeOrdinal, edgeIndex))

buildEdgeIndexes ==
    /\ pc = "buildEdgeIndexes"
    /\ firstEdgeIndexes' = EdgeIndexesLoop(0, 0, Store(firstEdgeIndexes, nodeCount, ArrayLen(containmentEdges)))
    /\ pc' = "buildRetainers"
    /\ UNCHANGED <<nodes, strings, inputVars, retainerVars, flags, nodeDistances, postOrderVars, treeVars, error>>

\* first loop of buildRetainers: count the retainers of every node; ok is
\* FALSE when the loop threw, with the counts made so far
RECURSIVE RetainerCounts(_, _)
RetainerCounts(toNodeFieldIndex, fri) ==
    IF toNodeFieldIndex >= ArrayLen(containmentEdges) THEN [ok |-> TRUE, fri |-> fri]
    ELSE LET toNodeIndex == containmentEdges[toNodeFieldIndex]
         IN  IF toNodeIndex % nodeFieldCount # 0 THEN [ok |-> FALSE, fri |-> fri]
             ELSE RetainerCounts(toNodeFieldIndex + edgeFieldsCount,
                                 Store(fri, toNodeIndex \div nodeFieldCount,
                                       Load(fri, toNodeIndex \div nodeFieldCount) + 1))

\* second loop: counts become offsets, the count is parked in retainingNodes
RECURSIVE RetainerOffsets(_, _, _, _)
RetainerOffsets(i, firstUnusedRetainerSlot, fri, rn) ==
    IF i >= nodeCount THEN [fri |-> fri, rn |-> rn]
    ELSE LET retainersCount == fri[i]
         IN  RetainerOffsets(i + 1, firstUnusedRetainerSlot + retainersCount,
                             Store(fri, i, firstUnusedRetainerSlot),
                             Store(rn, firstUnusedRetainerSlot, retainersCount))

\* the third loop with the parked count read but not decremented
RECURSIVE RetainerFillOffByOne(_, _, _, _)
RetainerFillOffByOne(edgeIndex, fri, rn, re) ==
    IF edgeIndex >= ArrayLen(containmentEdges) THEN [rn |-> rn, re |-> re]
    ELSE LET toNodeIndex == containmentEdges[edgeIndex + edgeToNodeOffset]
             srcNodeOrdinal == CHOOSE o \in 0 .. nodeCount - 1 :
                                  firstEdgeIndexes[o] <= edgeIndex /\ edgeIndex < firstEdgeIndexes[o + 1]
             firstRetainerSlotIndex == fri[toNodeIndex \div nodeFieldCount]
             nextUnusedRetainerSlotIndex == firstRetainerSlotIndex + Load(rn, firstRetainerSlotIndex)
         IN  RetainerFillOffByOne(edgeIndex + edgeFieldsCount, fri,
                                  Store(rn, nextUnusedRetainerSlotIndex, srcNodeOrdinal * nodeFieldCount),
                                  Store(re, nextUnusedRetainerSlotIndex, edgeIndex))

\* third loop: every edge, in edge order, takes the last free slot of its target
RECURSIVE RetainerFill(_, _, _, _)
RetainerFill(edgeIndex, fri, rn, re) ==
    IF edgeIndex >= ArrayLen(containmentEdges) THEN [rn |-> rn, re |-> re]
    ELSE LET toNodeIndex == containmentEdges[edgeIndex + edgeToNodeOffset]
             \* the source of the edge: the node whose edge range holds edgeIndex
             srcNodeOrdinal == CHOOSE o \in 0 .. nodeCount - 1 :
                                  firstEdgeIndexes[o] <= edgeIndex /\ edgeIndex < firstEdgeIndexes[o + 1]
             firstRetainerSlotIndex == fri[toNodeIndex \div nodeFieldCount]
             parked == rn[firstRetainerSlotIndex] - 1
             nextUnusedRetainerSlotIndex == firstRetainerSlotIndex + parked
             rn1 == Store(rn, firstRetainerSlotIndex, parked)
         IN  RetainerFill(edgeIndex + edgeFieldsCount, fri,
                          Store(rn1, nextUnusedRetainerSlotIndex, srcNodeOrdinal * nodeFieldCount),
                          Store(re, nextUnusedRetainerSlotIndex, edgeIndex))

buildRetainers ==
    /\ pc = "buildRetainers"
    /\ LET counted == RetainerCounts(edgeToNodeOffset, firstRetainerIndex)
       IN  IF ~counted.ok
           THEN /\ pc' = "error"
                /\ error' = "Invalid toNodeIndex"
                /\ firstRetainerIndex' = counted.fri
                /\ UNCHANGED <<retainingNodes, retainingEdges>>
           ELSE LET offsets == RetainerOffsets(0, 0, counted.fri, retainingNodes)
                    fri == Store(offsets.fri, nodeCount, ArrayLen(retainingNodes))
                    filled == RetainerFill(0, fri, offsets.rn, retainingEdges)
                IN  /\ firstRetainerIndex' = fri
                    /\ retainingNodes' = filled.rn
                    /\ retainingEdges' = filled.re
                    /\ pc' = "propagateDOMState"
                    /\ UNCHANGED error
    /\ UNCHANGED <<nodes, strings, inputVars, firstEdgeIndexes, flags, nodeDistances, postOrderVars, treeVars>>

\* ------------------------------------------------------ DOM link state
DOMLinkState == [Unknown |-> 0, Attached |-> 1, Detached |-> 2]
BITMASK_FOR_DOM_LINK_STATE == 3
SHIFT_FOR_CLASS_INDEX == 2

\* value & mask for a mask of the form 2^k - 1
BitAnd(value, mask) == value % (mask + 1)

\* HeapSnapshotNode.detachedness on a nodes array
detachedness(ns, nodeIndex) ==
    BitAnd(ns[nodeIndex + nodeDetachednessAndClassIndexOffset], BITMASK_FOR_DOM_LINK_STATE)

\* HeapSnapshotNode.setDetachedness: clear the low bits, set the new ones
setDetachedness(ns, nodeIndex, state) ==
    LET value == ns[nodeIndex + nodeDetachednessAndClassIndexOffset]
        cleared == value - BitAnd(value, BITMASK_FOR_DOM_LINK_STATE)
    IN  [ns EXCEPT ![nodeIndex + nodeDetachednessAndClassIndexOffset] = cleared + state]

StrDetachedPrefix == "Detached "

\* HeapSnapshot.addString: push and return the new index
addString(strs, string) == [i \in 0 .. ArrayLen(strs) |-> IF i < ArrayLen(strs) THEN strs[i] ELSE string]

\* addDetachedPrefixToNodeName without stringIndexCache: a new string every time
addDetachedPrefixToNodeNameUncached(st, nodeIndex) ==
    [st EXCEPT !.strings = addString(st.strings, StrDetachedPrefix \o st.strings[st.nodes[nodeIndex + nodeNameOffset]]),
               !.nodes[nodeIndex + nodeNameOffset] = ArrayLen(st.strings)]

\* addDetachedPrefixToNodeName; st.cache is stringIndexCache as a set of <<old, new>>
addDetachedPrefixToNodeName(st, nodeIndex) ==
    LET oldStringIndex == st.nodes[nodeIndex + nodeNameOffset]
        cached == {e \in st.cache : e[1] = oldStringIndex}
    IN  IF cached # {}
        THEN [st EXCEPT !.nodes[nodeIndex + nodeNameOffset] = (CHOOSE e \in cached : TRUE)[2]]
        ELSE LET newStringIndex == ArrayLen(st.strings)
             IN  [st EXCEPT !.strings = addString(st.strings, StrDetachedPrefix \o st.strings[oldStringIndex]),
                            !.cache = st.cache \cup {<<oldStringIndex, newStringIndex>>},
                            !.nodes[nodeIndex + nodeNameOffset] = newStringIndex]

\* processNode of propagateDOMState
processNode(st, nodeOrdinal, newState) ==
    IF st.visited[nodeOrdinal] = 1 THEN st
    ELSE LET nodeIndex == nodeOrdinal * nodeFieldCount
         IN  IF st.nodes[nodeIndex + nodeTypeOffset] # nodeNativeType
             THEN [st EXCEPT !.visited[nodeOrdinal] = 1]
             ELSE LET st1 == [st EXCEPT !.nodes = setDetachedness(st.nodes, nodeIndex, newState),
                                        !.visited[nodeOrdinal] = 1]
                  IN  IF newState = DOMLinkState.Attached
                      THEN [st1 EXCEPT !.attached = Append(st1.attached, nodeOrdinal)]
                      ELSE IF newState = DOMLinkState.Detached
                      THEN LET st2 == addDetachedPrefixToNodeName(st1, nodeIndex)
                           IN  [st2 EXCEPT !.detached = Append(st2.detached, nodeOrdinal)]
                      ELSE st1

\* propagateState without the edge type filter
RECURSIVE propagateStateUnfiltered(_, _, _, _)
propagateStateUnfiltered(st, edgeIndex, endEdgeIndex, newState) ==
    IF edgeIndex >= endEdgeIndex THEN st
    ELSE propagateStateUnfiltered(
             processNode(st, containmentEdges[edgeIndex + edgeToNodeOffset] \div nodeFieldCount, newState),
             edgeIndex + edgeFieldsCount, endEdgeIndex, newState)

\* propagateState with iterateFilteredChildren: the children of the parent in edge order
RECURSIVE propagateState(_, _, _, _)
propagateState(st, edgeIndex, endEdgeIndex, newState) ==
    IF edgeIndex >= endEdgeIndex THEN st
    ELSE LET childNodeOrdinal == containmentEdges[edgeIndex + edgeToNodeOffset] \div nodeFieldCount
             type == containmentEdges[edgeIndex + edgeTypeOffset]
         IN  IF type \in {edgeHiddenType, edgeInvisibleType, edgeWeakType}
             THEN propagateState(st, edgeIndex + edgeFieldsCount, endEdgeIndex, newState)
             ELSE propagateState(processNode(st, childNodeOrdinal, newState),
                                 edgeIndex + edgeFieldsCount, endEdgeIndex, newState)

\* 1. nodes with a known state go through processNode
RECURSIVE DOMSeed(_, _)
DOMSeed(st, nodeOrdinal) ==
    IF nodeOrdinal >= nodeCount THEN st
    ELSE LET state == detachedness(st.nodes, nodeOrdinal * nodeFieldCount)
         IN  IF state = DOMLinkState.Unknown THEN DOMSeed(st, nodeOrdinal + 1)
             ELSE DOMSeed(processNode(st, nodeOrdinal, state), nodeOrdinal + 1)

\* 2. while (attached.length !== 0)
RECURSIVE DOMAttached(_)
DOMAttached(st) ==
    IF Len(st.attached) = 0 THEN st
    ELSE LET nodeOrdinal == st.attached[Len(st.attached)]
             popped == [st EXCEPT !.attached = SubSeq(st.attached, 1, Len(st.attached) - 1)]
         IN  DOMAttached(propagateState(popped, firstEdgeIndexes[nodeOrdinal], firstEdgeIndexes[nodeOrdinal + 1],
                                        DOMLinkState.Attached))

\* 3. while (detached.length !== 0)
RECURSIVE DOMDetached(_)
DOMDetached(st) ==
    IF Len(st.detached) = 0 THEN st
    ELSE LET nodeOrdinal == st.detached[Len(st.detached)]
             popped == [st EXCEPT !.detached = SubSeq(st.detached, 1, Len(st.detached) - 1)]
         IN  IF detachedness(popped.nodes, nodeOrdinal * nodeFieldCount) = DOMLinkState.Attached
             THEN DOMDetached(popped)
             ELSE DOMDetached(propagateState(popped, firstEdgeIndexes[nodeOrdinal], firstEdgeIndexes[nodeOrdinal + 1],
                                             DOMLinkState.Detached))

propagateDOMState ==
    /\ pc = "propagateDOMState"
    /\ IF nodeDetachednessAndClassIndexOffset = -1
       THEN UNCHANGED <<nodes, strings>>
       ELSE LET st0 == [nodes |-> nodes, strings |-> strings, visited |-> ZeroArray(nodeCount),
                        attached |-> <<>>, detached |-> <<>>, cache |-> {}]
                st == DOMDetached(DOMAttached(DOMSeed(st0, 0)))
            IN  /\ nodes' = st.nodes
                /\ strings' = st.strings
    /\ pc' = "calculateFlags"
    /\ UNCHANGED <<inputVars, indexVars, flags, nodeDistances, postOrderVars, treeVars, error>>

\* ------------------------------------------------------------ node flags
nodeFlags == [canBeQueried |-> 1, detachedDOMTreeNode |-> 2, pageObject |-> 4]

\* flags & flag # 0, and flags | flag, for a one-bit flag
HasFlag(value, flag) == (value \div flag) % 2 = 1
SetFlag(value, flag) == IF HasFlag(value, flag) THEN value ELSE value + flag

StrDocumentDOMTrees == "(Document DOM trees)"

\* HeapSnapshotNode.name for a node that is not a concatenated string
rawName(nodeIndex) == strings[nodes[nodeIndex + nodeNameOffset]]
isSynthetic(nodeIndex) == nodes[nodeIndex + nodeTypeOffset] = nodeSyntheticType
isHidden(nodeIndex) == nodes[nodeIndex + nodeTypeOffset] = nodeHiddenType
isArray(nodeIndex) == nodes[nodeIndex + nodeTypeOffset] = nodeArrayType
isRoot(nodeIndex) == nodeIndex = rootNodeIndexInternal
\* JSHeapSnapshotNode.isUserRoot and isDocumentDOMTreesRoot
nodeIsUserRoot(nodeIndex) == ~isSynthetic(nodeIndex)
isDocumentDOMTreesRoot(nodeIndex) == isSynthetic(nodeIndex) /\ rawName(nodeIndex) = StrDocumentDOMTrees
\* JSHeapSnapshot.isUserRoot
isUserRoot(nodeIndex) == nodeIsUserRoot(nodeIndex) \/ isDocumentDOMTreesRoot(nodeIndex)

rootNodeOrdinal == rootNodeIndexInternal \div nodeFieldCount

markDetachedDOMTreeNodes(fl) ==
    [ordinal \in DOMAIN fl |->
        IF /\ nodes[ordinal * nodeFieldCount + nodeTypeOffset] = nodeNativeType
           /\ startsWith(rawName(ordinal * nodeFieldCount), StrDetachedPrefix)
        THEN SetFlag(fl[ordinal], nodeFlags.detachedDOMTreeNode)
        ELSE fl[ordinal]]

\* the targets of the root's edges that satisfy the seed test, in edge order
RECURSIVE RootEdgeTargets(_, _, _)
RootEdgeTargets(edgeIndex, accept(_), acc) ==
    IF edgeIndex >= firstEdgeIndexes[rootNodeOrdinal + 1] THEN acc
    ELSE RootEdgeTargets(edgeIndex + edgeFieldsCount, accept,
                         IF accept(edgeIndex)
                         THEN Append(acc, containmentEdges[edgeIndex + edgeToNodeOffset] \div nodeFieldCount)
                         ELSE acc)

\* inner loop of markQueriableHeapObjects: push the children over ordinary edges
RECURSIVE QueriablePush(_, _, _, _)
QueriablePush(edgeIndex, endEdgeIndex, fl, list) ==
    IF edgeIndex >= endEdgeIndex THEN list
    ELSE LET childNodeOrdinal == containmentEdges[edgeIndex + edgeToNodeOffset] \div nodeFieldCount
             type == containmentEdges[edgeIndex + edgeTypeOffset]
         IN  IF \/ HasFlag(fl[childNodeOrdinal], nodeFlags.canBeQueried)
                \/ type \in {edgeHiddenType, edgeInvisibleType, edgeInternalType, edgeWeakType}
             THEN QueriablePush(edgeIndex + edgeFieldsCount, endEdgeIndex, fl, list)
             ELSE QueriablePush(edgeIndex + edgeFieldsCount, endEdgeIndex, fl, Append(list, childNodeOrdinal))

RECURSIVE QueriableLoop(_, _)
QueriableLoop(fl, list) ==
    IF Len(list) = 0 THEN fl
    ELSE LET nodeOrdinal == list[Len(list)]
             rest == SubSeq(list, 1, Len(list) - 1)
         IN  IF HasFlag(fl[nodeOrdinal], nodeFlags.canBeQueried) THEN QueriableLoop(fl, rest)
             ELSE LET fl1 == [fl EXCEPT ![nodeOrdinal] = SetFlag(fl[nodeOrdinal], nodeFlags.canBeQueried)]
                  IN  QueriableLoop(fl1, QueriablePush(firstEdgeIndexes[nodeOrdinal], firstEdgeIndexes[nodeOrdinal + 1],
                                                       fl1, rest))

markQueriableHeapObjects(fl) ==
    LET accept(edgeIndex) == nodeIsUserRoot(containmentEdges[edgeIndex + edgeToNodeOffset])
    IN  QueriableLoop(fl, RootEdgeTargets(firstEdgeIndexes[rootNodeOrdinal], accept, <<>>))

\* nodesToVisit is a Uint32Array(nodeCount) with a length counter: a push past
\* the end is dropped while the counter still grows, and the slot reads undefined
PushBounded(stack, v) == [arr |-> Store(stack.arr, stack.len, v), len |-> stack.len + 1]

\* inner loop of markPageOwnedNodes: flag and push the children over non-weak edges
RECURSIVE PageOwnedPush(_, _, _, _)
PageOwnedPush(edgeIndex, endEdgeIndex, fl, nodesToVisit) ==
    IF edgeIndex >= endEdgeIndex THEN [fl |-> fl, nodesToVisit |-> nodesToVisit]
    ELSE LET childNodeOrdinal == containmentEdges[edgeIndex + edgeToNodeOffset] \div nodeFieldCount
             type == containmentEdges[edgeIndex + edgeTypeOffset]
         IN  IF HasFlag(fl[childNodeOrdinal], nodeFlags.pageObject) \/ type = edgeWeakType
             THEN PageOwnedPush(edgeIndex + edgeFieldsCount, endEdgeIndex, fl, nodesToVisit)
             ELSE PageOwnedPush(edgeIndex + edgeFieldsCount, endEdgeIndex,
                                [fl EXCEPT ![childNodeOrdinal] = SetFlag(fl[childNodeOrdinal], nodeFlags.pageObject)],
                                PushBounded(nodesToVisit, childNodeOrdinal))

\* while (nodesToVisitLength): a slot past the end yields an undefined ordinal,
\* whose edge range is empty
RECURSIVE PageOwnedLoop(_, _)
PageOwnedLoop(fl, nodesToVisit) ==
    IF nodesToVisit.len = 0 THEN fl
    ELSE LET top == nodesToVisit.len - 1
             popped == [nodesToVisit EXCEPT !.len = top]
         IN  IF top \notin DOMAIN nodesToVisit.arr THEN PageOwnedLoop(fl, popped)
             ELSE LET nodeOrdinal == nodesToVisit.arr[top]
                      pushed == PageOwnedPush(firstEdgeIndexes[nodeOrdinal], firstEdgeIndexes[nodeOrdinal + 1],
                                              fl, popped)
                  IN  PageOwnedLoop(pushed.fl, pushed.nodesToVisit)

\* the entry points are the targets of the root's shortcut edges and of its
\* element edges to the (Document DOM trees) node
RECURSIVE PageOwnedSeed(_, _, _)
PageOwnedSeed(fl, nodesToVisit, seeds) ==
    IF Len(seeds) = 0 THEN [fl |-> fl, nodesToVisit |-> nodesToVisit]
    ELSE PageOwnedSeed([fl EXCEPT ![Head(seeds)] = SetFlag(fl[Head(seeds)], nodeFlags.pageObject)],
                       PushBounded(nodesToVisit, Head(seeds)), Tail(seeds))

markPageOwnedNodes(fl) ==
    LET accept(edgeIndex) ==
            LET edgeType == containmentEdges[edgeIndex + edgeTypeOffset]
            IN  IF edgeType = edgeElementType
                THEN isDocumentDOMTreesRoot(containmentEdges[edgeIndex + edgeToNodeOffset])
                ELSE edgeType = edgeShortcutType
        seeded == PageOwnedSeed(fl, [arr |-> ZeroArray(nodeCount), len |-> 0],
                                RootEdgeTargets(firstEdgeIndexes[rootNodeOrdinal], accept, <<>>))
    IN  PageOwnedLoop(seeded.fl, seeded.nodesToVisit)

calculateFlags ==
    /\ pc = "calculateFlags"
    /\ flags' = markPageOwnedNodes(markQueriableHeapObjects(markDetachedDOMTreeNodes(ZeroArray(nodeCount))))
    /\ pc' = "calculateDistances"
    /\ UNCHANGED <<nodes, strings, inputVars, indexVars, nodeDistances, postOrderVars, treeVars, error>>

\* ------------------------------------------------------------- distances
noDistance == -5
baseSystemDistance == 100000000

\* String(n) for a non-negative integer
RECURSIVE NumberToString(_)
NumberToString(n) ==
    LET digit == CHOOSE c \in Digits : DigitValue(c) = n % 10
    IN  IF n < 10 THEN digit ELSE NumberToString(n \div 10) \o digit

\* parseInt(s, 10): leading blanks, an optional sign, then the leading digits;
\* NaN when there is no digit
RECURSIVE SkipBlanks(_)
SkipBlanks(s) == IF Len(s) > 0 /\ Head(s) = " " THEN SkipBlanks(Tail(s)) ELSE s

parseInt(str) ==
    LET s == SkipBlanks(str)
        signed == Len(s) > 0 /\ Head(s) \in {"-", "+"}
        body == IF signed THEN Tail(s) ELSE s
        k == LeadingDigits(body)
        magnitude == ParseDigits(SubSeq(body, 1, k), 0)
    IN  IF k = 0 THEN [isNaN |-> TRUE, value |-> 0]
        ELSE [isNaN |-> FALSE, value |-> IF signed /\ Head(s) = "-" THEN 0 - magnitude ELSE magnitude]

\* JSHeapSnapshotEdge.hasStringNameInternal / nameInternal / name
hasStringNameInternal(edgeIndex) ==
    containmentEdges[edgeIndex + edgeTypeOffset] \notin {edgeElementType, edgeHiddenType}

edgeName(edgeIndex) ==
    LET nameOrIndex == containmentEdges[edgeIndex + edgeNameOffset]
    IN  IF ~hasStringNameInternal(edgeIndex) THEN NumberToString(nameOrIndex)
        ELSE LET name == strings[nameOrIndex]
             IN  IF containmentEdges[edgeIndex + edgeTypeOffset] # edgeShortcutType THEN name
                 ELSE LET numName == parseInt(name)
                      IN  IF numName.isNaN THEN name
                          ELSE IF numName.value < 0 THEN "-" \o NumberToString(0 - numName.value)
                          ELSE NumberToString(numName.value)

\* the literal parts of ephemeronNameRegex
\*   ^\d+( / part of key \(.*? @\d+\) -> value \(.*? @\d+\) pair in WeakMap \(table @(\d+)\))$
ReKey == " / part of key ("
ReValue == ") -> value ("
ReTable == ") pair in WeakMap (table @"
ReAt == " @"

\* s ends with " @" and one or more digits
EndsWithAtDigits(s) ==
    LET t == TrailingDigits(s)
    IN  t >= 1 /\ endsWith(SubSeq(s, 1, Len(s) - t), ReAt)

\* HeapSnapshot.tryParseWeakMapEdgeName: the match of the regular expression on
\* strings[edgeNameIndex].  The bit vector #edgeNamesThatAreNotWeakMaps only
\* remembers the names that did not match, so that they are not matched again.
tryParseWeakMapEdgeName(edgeNameIndex) ==
    LET edgeName_ == strings[edgeNameIndex]
        d == LeadingDigits(edgeName_)
        duplicatedPart == SubSeq(edgeName_, d + 1, Len(edgeName_))
        \* the part before the closing parenthesis
        open == SubSeq(duplicatedPart, 1, Len(duplicatedPart) - 1)
        t == TrailingDigits(open)
        tableId == SubSeq(open, Len(open) - t + 1, Len(open))
        beforeTable == SubSeq(open, 1, Len(open) - t - Len(ReTable))
        middle == SubSeq(beforeTable, Len(ReKey) + 1, Len(beforeTable))
        matches ==
            /\ d >= 1
            /\ startsWith(duplicatedPart, ReKey)
            /\ endsWith(duplicatedPart, ")")
            /\ t >= 1
            /\ endsWith(SubSeq(open, 1, Len(open) - t), ReTable)
            /\ Len(beforeTable) >= Len(ReKey)
            /\ EndsWithAtDigits(middle)
            /\ \E i \in 1 .. Len(middle) :
                  /\ SubSeq(middle, i, i + Len(ReValue) - 1) = ReValue
                  /\ i + Len(ReValue) - 1 <= Len(middle)
                  /\ EndsWithAtDigits(SubSeq(middle, 1, i - 1))
                  \* the value part keeps its own " @<digits>" after the literal
                  /\ EndsWithAtDigits(SubSeq(middle, i + Len(ReValue), Len(middle)))
    IN  IF matches THEN [match |-> TRUE, duplicatedPart |-> duplicatedPart, tableId |-> tableId]
        ELSE [match |-> FALSE]

StrSloppyFunctionMap == "sloppy_function_map"
StrNativeContext == "system / NativeContext"
StrMapDescriptors == "(map descriptors)"

\* the filter rejecting every edge
distanceFilterRejecting(nodeIndex, edgeIndex, pending) == [pass |-> FALSE, pending |-> pending]

\* the filter of JSHeapSnapshot.calculateDistances; pending is pendingEphemeronEdges
distanceFilter(nodeIndex, edgeIndex, pending) ==
    IF isHidden(nodeIndex) /\ edgeName(edgeIndex) = StrSloppyFunctionMap /\ rawName(nodeIndex) = StrNativeContext
    THEN [pass |-> FALSE, pending |-> pending]
    ELSE IF isArray(nodeIndex) /\ rawName(nodeIndex) = StrMapDescriptors
    THEN LET index == parseInt(edgeName(edgeIndex))
         IN  [pass |-> index.isNaN \/ index.value < 2 \/ index.value % 3 # 1, pending |-> pending]
    ELSE IF containmentEdges[edgeIndex + edgeTypeOffset] = edgeInternalType
    THEN LET match == tryParseWeakMapEdgeName(containmentEdges[edgeIndex + edgeNameOffset])
         IN  IF match.match /\ match.duplicatedPart \notin pending
             THEN [pass |-> FALSE, pending |-> pending \cup {match.duplicatedPart}]
             ELSE IF match.match
             THEN [pass |-> TRUE, pending |-> pending \ {match.duplicatedPart}]
             ELSE [pass |-> TRUE, pending |-> pending]
    ELSE [pass |-> TRUE, pending |-> pending]

\* the filter calculateDistances installs for the retainers view around the
\* original one: an edge into an ignored node is rejected first
viewFilter(isForRetainersView, ignoredNodes, nodeIndex, edgeIndex, pending) ==
    IF isForRetainersView /\ containmentEdges[edgeIndex + edgeToNodeOffset] \in ignoredNodes
    THEN [pass |-> FALSE, pending |-> pending]
    ELSE distanceFilter(nodeIndex, edgeIndex, pending)

\* the edge loop of bfs for one dequeued node; q is
\* [distances, nodesToVisit, nodesToVisitLength, pending]
RECURSIVE bfsEdges(_, _, _, _, _, _, _)
bfsEdges(q, nodeIndex, distance, edgeIndex, edgesEnd, isForRetainersView, ignoredNodes) ==
    IF edgeIndex >= edgesEnd THEN q
    ELSE LET next(q1) == bfsEdges(q1, nodeIndex, distance, edgeIndex + edgeFieldsCount, edgesEnd,
                                  isForRetainersView, ignoredNodes)
             childNodeIndex == containmentEdges[edgeIndex + edgeToNodeOffset]
             childNodeOrdinal == childNodeIndex \div nodeFieldCount
         IN  IF containmentEdges[edgeIndex + edgeTypeOffset] = edgeWeakType
                \/ q.distances[childNodeOrdinal] # noDistance
             THEN next(q)
             ELSE LET filtered(f) ==
                          IF ~f.pass THEN [q EXCEPT !.pending = f.pending]
                          ELSE [distances |-> [q.distances EXCEPT ![childNodeOrdinal] = distance],
                                nodesToVisit |-> Store(q.nodesToVisit, q.nodesToVisitLength, childNodeIndex),
                                nodesToVisitLength |-> q.nodesToVisitLength + 1,
                                pending |-> f.pending]
                  IN  next(filtered(viewFilter(isForRetainersView, ignoredNodes, nodeIndex, edgeIndex, q.pending)))

\* while (index < nodesToVisitLength): a slot past the end of nodesToVisit reads
\* undefined, a node without edges
RECURSIVE bfsLoop(_, _, _, _)
bfsLoop(q, index, isForRetainersView, ignoredNodes) ==
    IF index >= q.nodesToVisitLength THEN q
    ELSE IF index \notin DOMAIN q.nodesToVisit THEN bfsLoop(q, index + 1, isForRetainersView, ignoredNodes)
    ELSE LET nodeIndex == q.nodesToVisit[index]
             nodeOrdinal == nodeIndex \div nodeFieldCount
         IN  bfsLoop(bfsEdges(q, nodeIndex, q.distances[nodeOrdinal] + 1, firstEdgeIndexes[nodeOrdinal],
                              firstEdgeIndexes[nodeOrdinal + 1], isForRetainersView, ignoredNodes),
                     index + 1, isForRetainersView, ignoredNodes)

\* HeapSnapshot.bfs; failed is the 'BFS failed' Error
bfs(q, isForRetainersView, ignoredNodes) ==
    LET result(out) == [q |-> out, failed |-> out.nodesToVisitLength > nodeCount]
    IN  result(bfsLoop(q, 0, isForRetainersView, ignoredNodes))

\* the first phase without its seeds
seedUserRootsSkipped(q, edgeIndex) == q

\* the seeding loop: every edge of the root whose target is a user root
RECURSIVE seedUserRoots(_, _)
seedUserRoots(q, edgeIndex) ==
    IF edgeIndex >= firstEdgeIndexes[rootNodeOrdinal + 1] THEN q
    ELSE LET nodeIndex == containmentEdges[edgeIndex + edgeToNodeOffset]
         IN  IF isUserRoot(nodeIndex)
             THEN seedUserRoots([q EXCEPT !.distances[nodeIndex \div nodeFieldCount] = 1,
                                          !.nodesToVisit = Store(q.nodesToVisit, q.nodesToVisitLength, nodeIndex),
                                          !.nodesToVisitLength = q.nodesToVisitLength + 1],
                                edgeIndex + edgeFieldsCount)
             ELSE seedUserRoots(q, edgeIndex + edgeFieldsCount)

\* the root at distance 0 whatever was seeded
rootDistanceZero(nodesToVisitLength) == 0

\* the distance of the root in the second phase, from the number of seeds
rootDistance(nodesToVisitLength) == IF nodesToVisitLength > 0 THEN baseSystemDistance ELSE 0

\* JSHeapSnapshot.calculateDistances over HeapSnapshot.calculateDistances:
\* the distances array as the call leaves it, and whether it threw
calculateDistancesOf(isForRetainersView, ignoredNodes) ==
    LET q0 == [distances |-> [i \in 0 .. nodeCount - 1 |-> noDistance],
               nodesToVisit |-> ZeroArray(nodeCount), nodesToVisitLength |-> 0, pending |-> {}]
        result(first, second) ==
            IF first.failed THEN [distances |-> first.q.distances, failed |-> TRUE]
            ELSE [distances |-> second.q.distances, failed |-> second.failed]
        \* nodesToVisitLength of calculateDistances is the number of seeds
        fromRoot(seeded, first) ==
            result(first,
                   bfs([distances |-> [first.q.distances EXCEPT ![rootNodeOrdinal] =
                                           rootDistance(seeded.nodesToVisitLength)],
                        nodesToVisit |-> Store(first.q.nodesToVisit, 0, rootNodeIndexInternal),
                        nodesToVisitLength |-> 1,
                        pending |-> first.q.pending],
                       isForRetainersView, ignoredNodes))
        fromUserRoots(seeded) == fromRoot(seeded, bfs(seeded, isForRetainersView, ignoredNodes))
    IN  fromUserRoots(seedUserRoots(q0, firstEdgeIndexes[rootNodeOrdinal]))

calculateDistances ==
    /\ pc = "calculateDistances"
    /\ LET returned(r) ==
               /\ nodeDistances' = r.distances
               /\ pc' = IF r.failed THEN "error" ELSE "buildPostOrderIndex"
               /\ error' = IF r.failed THEN "BFS failed" ELSE error
       IN  returned(calculateDistancesOf(FALSE, {}))
    /\ UNCHANGED <<nodes, strings, inputVars, indexVars, flags, postOrderVars, treeVars>>

\* ------------------------------------------------------- essential edges
\* isEssentialEdge that looks at the type of the edge only
isEssentialEdgeByType(nodeIndex, edgeIndex) ==
    LET edgeType == containmentEdges[edgeIndex + edgeTypeOffset]
    IN  edgeType # edgeWeakType /\ (edgeType # edgeShortcutType \/ nodeIndex = rootNodeIndexInternal)

\* HeapSnapshot.isEssentialEdge
isEssentialEdge(nodeIndex, edgeIndex) ==
    LET edgeType == containmentEdges[edgeIndex + edgeTypeOffset]
        match == tryParseWeakMapEdgeName(containmentEdges[edgeIndex + edgeNameOffset])
    IN  IF edgeType = edgeInternalType /\ match.match
        THEN nodes[nodeIndex + nodeIdOffset] # parseInt(match.tableId).value
        ELSE edgeType # edgeWeakType /\ (edgeType # edgeShortcutType \/ nodeIndex = rootNodeIndexInternal)

\* flags[ordinal] & flag of userObjectsMapAndFlag: the page-object bit
pageFlag(ordinal) == HasFlag(flags[ordinal], nodeFlags.pageObject)

\* ------------------------------------------------------------ post-order
\* the inner loop of buildPostOrderIndex: while (stackTop >= 0); d is
\* [stackNodes, stackCurrentEdge, stackTop, visited, postOrderIndex2NodeOrdinal,
\*  nodeOrdinal2PostOrderIndex, postOrderIndex]
RECURSIVE postOrderDFS(_)
postOrderDFS(d) ==
    IF d.stackTop < 0 THEN d
    ELSE LET nodeOrdinal == d.stackNodes[d.stackTop]
             edgeIndex == d.stackCurrentEdge[d.stackTop]
             edgesEnd == firstEdgeIndexes[nodeOrdinal + 1]
         IN  IF edgeIndex < edgesEnd
             THEN LET d1 == [d EXCEPT !.stackCurrentEdge[d.stackTop] = edgeIndex + edgeFieldsCount]
                      childNodeOrdinal == containmentEdges[edgeIndex + edgeToNodeOffset] \div nodeFieldCount
                  IN  IF ~isEssentialEdge(nodeOrdinal * nodeFieldCount, edgeIndex) THEN postOrderDFS(d1)
                      ELSE IF d1.visited[childNodeOrdinal] = 1 THEN postOrderDFS(d1)
                      ELSE IF nodeOrdinal # rootNodeOrdinal /\ pageFlag(childNodeOrdinal) /\ ~pageFlag(nodeOrdinal)
                      THEN postOrderDFS(d1)
                      ELSE postOrderDFS([d1 EXCEPT
                              !.stackTop = d1.stackTop + 1,
                              !.stackNodes = Store(d1.stackNodes, d1.stackTop + 1, childNodeOrdinal),
                              !.stackCurrentEdge = Store(d1.stackCurrentEdge, d1.stackTop + 1,
                                                         firstEdgeIndexes[childNodeOrdinal]),
                              !.visited[childNodeOrdinal] = 1])
             ELSE postOrderDFS([d EXCEPT
                      !.nodeOrdinal2PostOrderIndex[nodeOrdinal] = d.postOrderIndex,
                      !.postOrderIndex2NodeOrdinal = Store(d.postOrderIndex2NodeOrdinal, d.postOrderIndex, nodeOrdinal),
                      !.postOrderIndex = d.postOrderIndex + 1,
                      !.stackTop = d.stackTop - 1])

\* HeapSnapshot.hasOnlyWeakRetainers
hasOnlyWeakRetainers(nodeOrdinal) ==
    \A retainerIndex \in firstRetainerIndex[nodeOrdinal] .. firstRetainerIndex[nodeOrdinal + 1] - 1 :
        containmentEdges[retainingEdges[retainerIndex] + edgeTypeOffset] \in {edgeWeakType, edgeShortcutType}

\* the second round: every unvisited node with only weak retainers goes on the
\* stack above the root
RECURSIVE pushWeaklyRetained(_, _)
pushWeaklyRetained(d, i) ==
    IF i >= nodeCount THEN d
    ELSE IF d.visited[i] = 1 \/ ~hasOnlyWeakRetainers(i) THEN pushWeaklyRetained(d, i + 1)
    ELSE pushWeaklyRetained([d EXCEPT !.stackTop = d.stackTop + 1,
                                      !.stackNodes = Store(d.stackNodes, d.stackTop + 1, i),
                                      !.stackCurrentEdge = Store(d.stackCurrentEdge, d.stackTop + 1, firstEdgeIndexes[i]),
                                      !.visited[i] = 1],
                            i + 1)

\* the last round left out
appendUnreachableSkipped(d, i) == d

\* the last round: the nodes that are still unvisited get the next indexes
RECURSIVE appendUnreachable(_, _)
appendUnreachable(d, i) ==
    IF i >= nodeCount THEN d
    ELSE IF d.visited[i] = 1 THEN appendUnreachable(d, i + 1)
    ELSE appendUnreachable([d EXCEPT
             !.nodeOrdinal2PostOrderIndex[i] = d.postOrderIndex,
             !.postOrderIndex2NodeOrdinal = Store(d.postOrderIndex2NodeOrdinal, d.postOrderIndex, i),
             !.postOrderIndex = d.postOrderIndex + 1],
         i + 1)

buildPostOrderIndexOf ==
    LET d0 == [stackNodes |-> Store(ZeroArray(nodeCount), 0, rootNodeOrdinal),
               stackCurrentEdge |-> Store(ZeroArray(nodeCount), 0, firstEdgeIndexes[rootNodeOrdinal]),
               stackTop |-> 0,
               visited |-> Store(ZeroArray(nodeCount), rootNodeOrdinal, 1),
               postOrderIndex2NodeOrdinal |-> ZeroArray(nodeCount),
               nodeOrdinal2PostOrderIndex |-> ZeroArray(nodeCount),
               postOrderIndex |-> 0]
        withRoot(appended) ==
            [appended EXCEPT
                !.nodeOrdinal2PostOrderIndex[rootNodeOrdinal] = appended.postOrderIndex,
                !.postOrderIndex2NodeOrdinal = Store(appended.postOrderIndex2NodeOrdinal,
                                                     appended.postOrderIndex, rootNodeOrdinal),
                !.postOrderIndex = appended.postOrderIndex + 1]
        third(second) ==
            IF second.postOrderIndex = nodeCount THEN second
            ELSE withRoot(appendUnreachable([second EXCEPT !.postOrderIndex = second.postOrderIndex - 1], 0))
        \* iteration 1 left nodes out: take the root off the result and rerun
        \* with the weakly retained nodes
        restart(first) ==
            pushWeaklyRetained(
                [first EXCEPT !.postOrderIndex = first.postOrderIndex - 1,
                              !.stackTop = 0,
                              !.stackNodes = Store(first.stackNodes, 0, rootNodeOrdinal),
                              !.stackCurrentEdge = Store(first.stackCurrentEdge, 0,
                                                         firstEdgeIndexes[rootNodeOrdinal + 1])],
                0)
        second(first) ==
            third(IF first.postOrderIndex = nodeCount THEN first ELSE postOrderDFS(restart(first)))
    IN  second(postOrderDFS(d0))

buildPostOrderIndex ==
    /\ pc = "buildPostOrderIndex"
    /\ LET returned(result) ==
               /\ postOrderIndex2NodeOrdinal' = result.postOrderIndex2NodeOrdinal
               /\ nodeOrdinal2PostOrderIndex' = result.nodeOrdinal2PostOrderIndex
       IN  returned(buildPostOrderIndexOf)
    /\ pc' = "buildDominatorTree"
    /\ UNCHANGED <<nodes, strings, inputVars, indexVars, flags, nodeDistances, treeVars, error>>

\* ------------------------------------------------------- dominator tree
\* bound on the steps of one two-pointer walk and on the passes of the outer
\* loop of buildDominatorTree; a run that exhausts it has not terminated
WalkFuel == 40

\* BitVector.previous: the last set bit strictly before index, or -1
previous(affected, index) ==
    IF \E i \in affected : i < index
    THEN CHOOSE i \in affected : i < index /\ \A j \in affected : j < index => j <= i
    ELSE -1

\* the intersection left out: the retainer itself becomes the dominator
intersectChainsSkipped(dominators, retainerPostOrderIndex, newDominatorIndex, fuel) ==
    retainerPostOrderIndex

\* the nested while loops that intersect two dominator chains; -1 when the
\* loops do not terminate
RECURSIVE intersectChains(_, _, _, _)
intersectChains(dominators, retainerPostOrderIndex, newDominatorIndex, fuel) ==
    IF retainerPostOrderIndex = newDominatorIndex THEN newDominatorIndex
    ELSE IF fuel = 0 \/ retainerPostOrderIndex >= ArrayLen(dominators) \/ newDominatorIndex >= ArrayLen(dominators)
    THEN -1
    ELSE IF retainerPostOrderIndex < newDominatorIndex
    THEN intersectChains(dominators, dominators[retainerPostOrderIndex], newDominatorIndex, fuel - 1)
    ELSE intersectChains(dominators, retainerPostOrderIndex, dominators[newDominatorIndex], fuel - 1)

\* the loop over the retainers of one affected node; r is
\* [newDominatorIndex, orphanNode, hang]
RECURSIVE retainersLoop(_, _, _, _, _)
retainersLoop(dominators, nodeOrdinal, retainerIndex, endRetainerIndex, r) ==
    LET nodesCount == ArrayLen(dominators)
        rootPostOrderedIndex == nodesCount - 1
        noEntry == nodesCount
        retainerEdgeIndex == retainingEdges[retainerIndex]
        retainerNodeIndex == retainingNodes[retainerIndex]
        retainerNodeOrdinal == retainerNodeIndex \div nodeFieldCount
        retainerPostOrderIndex == nodeOrdinal2PostOrderIndex[retainerNodeOrdinal]
        continue(r1) == retainersLoop(dominators, nodeOrdinal, retainerIndex + 1, endRetainerIndex, r1)
    IN  IF retainerIndex >= endRetainerIndex \/ r.hang THEN r
        ELSE IF ~isEssentialEdge(retainerNodeIndex, retainerEdgeIndex) THEN continue(r)
        ELSE LET r1 == [r EXCEPT !.orphanNode = FALSE]
             IN  IF retainerNodeIndex # rootNodeIndexInternal /\ pageFlag(nodeOrdinal) /\ ~pageFlag(retainerNodeOrdinal)
                 THEN continue(r1)
                 ELSE IF dominators[retainerPostOrderIndex] = noEntry THEN continue(r1)
                 ELSE LET intersected(met) ==
                              IF met = -1 THEN [r1 EXCEPT !.hang = TRUE]
                              ELSE IF met = rootPostOrderedIndex THEN [r1 EXCEPT !.newDominatorIndex = met]
                              ELSE continue([r1 EXCEPT !.newDominatorIndex = met])
                      IN  intersected(IF r1.newDominatorIndex = noEntry THEN retainerPostOrderIndex
                                      ELSE intersectChains(dominators, retainerPostOrderIndex,
                                                           r1.newDominatorIndex, WalkFuel))

\* the post-order indexes of the targets of all edges of a node
childPostOrderIndexes(nodeOrdinal) ==
    { nodeOrdinal2PostOrderIndex[containmentEdges[e * edgeFieldsCount + edgeToNodeOffset] \div nodeFieldCount] :
        e \in { k \in 0 .. edgeCount - 1 : /\ k * edgeFieldsCount >= firstEdgeIndexes[nodeOrdinal]
                                           /\ k * edgeFieldsCount < firstEdgeIndexes[nodeOrdinal + 1] } }

\* a step that leaves the entry affected and reports a change
recalculateUnsettled(s, postOrderIndex) == [s EXCEPT !.changed = TRUE]

\* one step of the for loop over the affected entries; s is
\* [dominators, affected, changed, hang]
recalculate(s, postOrderIndex) ==
    LET nodesCount == ArrayLen(s.dominators)
        rootPostOrderedIndex == nodesCount - 1
        noEntry == nodesCount
        cleared == [s EXCEPT !.affected = s.affected \ {postOrderIndex}]
        nodeOrdinal == postOrderIndex2NodeOrdinal[postOrderIndex]
        update(r, newDominatorIndex) ==
            IF r.hang THEN [cleared EXCEPT !.hang = TRUE]
            ELSE IF newDominatorIndex # noEntry /\ s.dominators[postOrderIndex] # newDominatorIndex
            THEN [cleared EXCEPT !.dominators[postOrderIndex] = newDominatorIndex,
                                 !.changed = TRUE,
                                 !.affected = cleared.affected \cup childPostOrderIndexes(nodeOrdinal)]
            ELSE cleared
        retained(r) == update(r, IF r.orphanNode THEN rootPostOrderedIndex ELSE r.newDominatorIndex)
    IN  IF s.dominators[postOrderIndex] = rootPostOrderedIndex THEN cleared
        ELSE retained(retainersLoop(s.dominators, nodeOrdinal, firstRetainerIndex[nodeOrdinal],
                                    firstRetainerIndex[nodeOrdinal + 1],
                                    [newDominatorIndex |-> noEntry, orphanNode |-> TRUE, hang |-> FALSE]))

RECURSIVE affectedLoop(_, _)
affectedLoop(s, postOrderIndex) ==
    IF postOrderIndex < 0 \/ s.hang THEN s
    ELSE LET next(s1) == affectedLoop(s1, previous(s1.affected, postOrderIndex))
         IN  next(recalculate(s, postOrderIndex))

RECURSIVE changedLoop(_, _)
changedLoop(s, fuel) ==
    IF ~s.changed \/ s.hang THEN s
    ELSE IF fuel = 0 THEN [s EXCEPT !.hang = TRUE]
    ELSE changedLoop(affectedLoop([s EXCEPT !.changed = FALSE],
                                  previous(s.affected, ArrayLen(s.dominators) - 1)),
                     fuel - 1)

\* the final loop: post-order indexes back to ordinals; a dominator entry
\* that is still noEntry reads past the end of postOrderIndex2NodeOrdinal
RECURSIVE toOrdinals(_, _, _)
toOrdinals(dominators, tree, postOrderIndex) ==
    IF postOrderIndex >= ArrayLen(dominators) THEN tree
    ELSE toOrdinals(dominators,
                    Store(tree, postOrderIndex2NodeOrdinal[postOrderIndex],
                          Load(postOrderIndex2NodeOrdinal, dominators[postOrderIndex])),
                    postOrderIndex + 1)

rootChildren ==
    { nodeOrdinal2PostOrderIndex[containmentEdges[e * edgeFieldsCount + edgeToNodeOffset] \div nodeFieldCount] :
        e \in { k \in 0 .. edgeCount - 1 : /\ k * edgeFieldsCount >= firstEdgeIndexes[rootNodeOrdinal]
                                           /\ k * edgeFieldsCount < firstEdgeIndexes[rootNodeOrdinal + 1]
                                           /\ isEssentialEdge(rootNodeIndexInternal, k * edgeFieldsCount) } }

buildDominatorTreeOf ==
    LET nodesCount == ArrayLen(postOrderIndex2NodeOrdinal)
        rootPostOrderedIndex == nodesCount - 1
        noEntry == nodesCount
        dominators0 == [i \in 0 .. nodesCount - 1 |-> IF i = rootPostOrderedIndex THEN rootPostOrderedIndex ELSE noEntry]
        result(s) == [hang |-> s.hang, dominators |-> s.dominators,
                      dominatorsTree |-> toOrdinals(s.dominators, ZeroArray(nodesCount), 0)]
    IN  result(changedLoop([dominators |-> dominators0, affected |-> rootChildren, changed |-> TRUE,
                            hang |-> FALSE],
                           WalkFuel))

buildDominatorTree ==
    /\ pc = "buildDominatorTree"
    /\ LET returned(r) ==
               /\ dominatorsTree' = IF r.hang THEN dominatorsTree ELSE r.dominatorsTree
               /\ pc' = IF r.hang THEN "diverged" ELSE "calculateShallowSizes"
       IN  returned(buildDominatorTreeOf)
    /\ UNCHANGED <<nodes, strings, inputVars, indexVars, flags, nodeDistances, postOrderVars,
                   retainedSizes, dominatedVars, error>>

\* -------------------------------------------------------- shallow sizes
\* JSHeapSnapshot.#hasUserRoots
hasUserRoots ==
    \E k \in 0 .. edgeCount - 1 :
        /\ k * edgeFieldsCount >= firstEdgeIndexes[rootNodeOrdinal]
        /\ k * edgeFieldsCount < firstEdgeIndexes[rootNodeOrdinal + 1]
        /\ isUserRoot(containmentEdges[k * edgeFieldsCount + edgeToNodeOffset])

\* 0xffffffff and 0xfffffffe: two values no node ordinal of a snapshot can
\* take (calculateShallowSizes throws when nodeCount reaches them)
kUnvisited == -1
kHasMultipleOwners == -2

\* the edges of one worklist entry with the first owner of a node kept
RECURSIVE ownEdgesFirstOwnerKept(_, _, _, _)
ownEdgesFirstOwnerKept(w, owner, edgeIndex, endEdgeIndex) ==
    IF edgeIndex >= endEdgeIndex THEN w
    ELSE LET targetId == containmentEdges[edgeIndex + edgeToNodeOffset] \div nodeFieldCount
             next(w1) == ownEdgesFirstOwnerKept(w1, owner, edgeIndex + edgeFieldsCount, endEdgeIndex)
         IN  IF containmentEdges[edgeIndex + edgeTypeOffset] # edgeWeakType /\ w.owners[targetId] = kUnvisited
             THEN next([owners |-> [w.owners EXCEPT ![targetId] = owner], worklist |-> Append(w.worklist, targetId)])
             ELSE next(w)

\* the edges of one worklist entry with a node of several owners pushed again
RECURSIVE ownEdgesOwnedByManyRevisited(_, _, _, _)
ownEdgesOwnedByManyRevisited(w, owner, edgeIndex, endEdgeIndex) ==
    IF edgeIndex >= endEdgeIndex THEN w
    ELSE LET targetId == containmentEdges[edgeIndex + edgeToNodeOffset] \div nodeFieldCount
             next(w1) == ownEdgesOwnedByManyRevisited(w1, owner, edgeIndex + edgeFieldsCount, endEdgeIndex)
         IN  IF containmentEdges[edgeIndex + edgeTypeOffset] = edgeWeakType THEN next(w)
             ELSE IF w.owners[targetId] = kUnvisited
             THEN next([owners |-> [w.owners EXCEPT ![targetId] = owner], worklist |-> Append(w.worklist, targetId)])
             ELSE IF w.owners[targetId] \in {targetId, owner} THEN next(w)
             ELSE next([owners |-> [w.owners EXCEPT ![targetId] = kHasMultipleOwners],
                        worklist |-> Append(w.worklist, targetId)])

\* the edges of one worklist entry; w is [owners, worklist]
RECURSIVE ownEdges(_, _, _, _)
ownEdges(w, owner, edgeIndex, endEdgeIndex) ==
    IF edgeIndex >= endEdgeIndex THEN w
    ELSE LET targetId == containmentEdges[edgeIndex + edgeToNodeOffset] \div nodeFieldCount
             next(w1) == ownEdges(w1, owner, edgeIndex + edgeFieldsCount, endEdgeIndex)
         IN  IF containmentEdges[edgeIndex + edgeTypeOffset] = edgeWeakType THEN next(w)
             ELSE IF w.owners[targetId] = kUnvisited
             THEN next([owners |-> [w.owners EXCEPT ![targetId] = owner], worklist |-> Append(w.worklist, targetId)])
             ELSE IF w.owners[targetId] \in {targetId, owner, kHasMultipleOwners} THEN next(w)
             ELSE next([owners |-> [w.owners EXCEPT ![targetId] = kHasMultipleOwners],
                        worklist |-> Append(w.worklist, targetId)])

RECURSIVE ownersLoop(_)
ownersLoop(w) ==
    IF w.worklist = <<>> THEN w.owners
    ELSE LET id == w.worklist[Len(w.worklist)]
             popped == [w EXCEPT !.worklist = SubSeq(w.worklist, 1, Len(w.worklist) - 1)]
         IN  ownersLoop(ownEdges(popped, w.owners[id], firstEdgeIndexes[id], firstEdgeIndexes[id + 1]))

\* the last loop: the self size of an owned node moves to its owner
RECURSIVE transferSizes(_, _, _)
transferSizes(ns, owners, i) ==
    IF i >= nodeCount THEN ns
    ELSE LET ownerId == owners[i]
             ownedNodeIndex == i * nodeFieldCount
             ownerNodeIndex == ownerId * nodeFieldCount
             sizeToTransfer == ns[ownedNodeIndex + nodeSelfSizeOffset]
             zeroed == [ns EXCEPT ![ownedNodeIndex + nodeSelfSizeOffset] = 0]
         IN  IF ownerId \in {kUnvisited, kHasMultipleOwners, i} THEN transferSizes(ns, owners, i + 1)
             ELSE IF isSynthetic(ownerNodeIndex) \/ isRoot(ownerNodeIndex) THEN transferSizes(ns, owners, i + 1)
             ELSE transferSizes([zeroed EXCEPT ![ownerNodeIndex + nodeSelfSizeOffset] =
                                                   zeroed[ownerNodeIndex + nodeSelfSizeOffset] + sizeToTransfer],
                                owners, i + 1)

selfOwned == { i \in 0 .. nodeCount - 1 : ~(isHidden(i * nodeFieldCount) \/ isArray(i * nodeFieldCount)) }

RECURSIVE ascending(_, _)
ascending(S, i) ==
    IF i >= nodeCount THEN <<>>
    ELSE (IF i \in S THEN <<i>> ELSE <<>>) \o ascending(S, i + 1)

calculateShallowSizesOf ==
    IF ~hasUserRoots THEN nodes
    ELSE transferSizes(nodes,
                       ownersLoop([owners |-> [i \in 0 .. nodeCount - 1 |-> IF i \in selfOwned THEN i ELSE kUnvisited],
                                   worklist |-> ascending(selfOwned, 0)]),
                       0)

calculateShallowSizes ==
    /\ pc = "calculateShallowSizes"
    /\ nodes' = calculateShallowSizesOf
    /\ pc' = "calculateRetainedSizes"
    /\ UNCHANGED <<strings, inputVars, indexVars, flags, nodeDistances, postOrderVars, treeVars, error>>

\* ------------------------------------------------------- retained sizes
RECURSIVE propagateRetainedSizes(_, _)
propagateRetainedSizes(sizes, postOrderIndex) ==
    IF postOrderIndex >= nodeCount - 1 THEN sizes
    ELSE LET nodeOrdinal == postOrderIndex2NodeOrdinal[postOrderIndex]
             dominatorOrdinal == dominatorsTree[nodeOrdinal]
         IN  propagateRetainedSizes([sizes EXCEPT ![dominatorOrdinal] = sizes[dominatorOrdinal] + sizes[nodeOrdinal]],
                                    postOrderIndex + 1)

calculateRetainedSizes ==
    /\ pc = "calculateRetainedSizes"
    /\ retainedSizes' = propagateRetainedSizes(
                            [nodeOrdinal \in 0 .. nodeCount - 1 |-> nodes[nodeOrdinal * nodeFieldCount + nodeSelfSizeOffset]],
                            0)
    /\ pc' = "buildDominatedNodes"
    /\ UNCHANGED <<nodes, strings, inputVars, indexVars, flags, nodeDistances, postOrderVars,
                   dominatorsTree, dominatedVars, error>>

\* ------------------------------------------------------ dominated nodes
\* first loop: ++indexArray[dominatorsTree[nodeOrdinal]]
RECURSIVE countDominated(_, _, _)
countDominated(indexArray, nodeOrdinal, toNodeOrdinal) ==
    IF nodeOrdinal >= toNodeOrdinal THEN indexArray
    ELSE countDominated(Store(indexArray, dominatorsTree[nodeOrdinal], Load(indexArray, dominatorsTree[nodeOrdinal]) + 1),
                        nodeOrdinal + 1, toNodeOrdinal)

\* second loop: each count moves into the first slot of its slice and the
\* index array takes the start of the slice; b is [indexArray, dominatedNodes]
RECURSIVE parkCounts(_, _, _)
parkCounts(b, i, firstDominatedIndex) ==
    IF i >= nodeCount THEN b
    ELSE LET dominatedCount == b.indexArray[i]
         IN  parkCounts([indexArray |-> [b.indexArray EXCEPT ![i] = firstDominatedIndex],
                         dominatedNodes |-> Store(b.dominatedNodes, firstDominatedIndex, dominatedCount)],
                        i + 1, firstDominatedIndex + dominatedCount)

\* the third loop filling every slice at its first slot
RECURSIVE fillDominatedFirstSlot(_, _, _)
fillDominatedFirstSlot(b, nodeOrdinal, toNodeOrdinal) ==
    IF nodeOrdinal >= toNodeOrdinal THEN b
    ELSE fillDominatedFirstSlot([b EXCEPT !.dominatedNodes =
                                     Store(b.dominatedNodes, b.indexArray[dominatorsTree[nodeOrdinal]],
                                           nodeOrdinal * nodeFieldCount)],
                                nodeOrdinal + 1, toNodeOrdinal)

\* third loop: a slice fills from its end, its first slot counting down; a
\* slot past the end of dominatedNodes reads undefined and nothing is written.
\* A count of 0 wraps to 0xffffffff, held here as -1, and indexes no slot
RECURSIVE fillDominated(_, _, _)
fillDominated(b, nodeOrdinal, toNodeOrdinal) ==
    IF nodeOrdinal >= toNodeOrdinal THEN b
    ELSE LET dominatorOrdinal == dominatorsTree[nodeOrdinal]
             dominatedRefIndex == b.indexArray[dominatorOrdinal]
             remaining == Load(b.dominatedNodes, dominatedRefIndex) - 1
             decremented == Store(b.dominatedNodes, dominatedRefIndex, remaining)
         IN  IF dominatedRefIndex >= ArrayLen(b.dominatedNodes) THEN fillDominated(b, nodeOrdinal + 1, toNodeOrdinal)
             ELSE IF remaining < 0
             THEN fillDominated([b EXCEPT !.dominatedNodes = decremented], nodeOrdinal + 1, toNodeOrdinal)
             ELSE fillDominated([b EXCEPT !.dominatedNodes =
                                     Store(decremented, dominatedRefIndex + remaining, nodeOrdinal * nodeFieldCount)],
                                nodeOrdinal + 1, toNodeOrdinal)

buildDominatedNodesOf(fromNodeOrdinal, toNodeOrdinal) ==
    LET counted == countDominated(firstDominatedNodeIndex, fromNodeOrdinal, toNodeOrdinal)
        parked == parkCounts([indexArray |-> counted, dominatedNodes |-> dominatedNodes], 0, 0)
        closed == [parked EXCEPT !.indexArray[nodeCount] = ArrayLen(dominatedNodes)]
    IN  fillDominated(closed, fromNodeOrdinal, toNodeOrdinal)

buildDominatedNodes ==
    /\ pc = "buildDominatedNodes"
    /\ IF rootNodeOrdinal # 0 /\ rootNodeOrdinal # nodeCount - 1
       THEN /\ error' = "Root node is expected to be either first or last"
            /\ pc' = "error"
            /\ UNCHANGED dominatedVars
       ELSE LET b == IF rootNodeOrdinal = 0 THEN buildDominatedNodesOf(1, nodeCount)
                     ELSE buildDominatedNodesOf(0, nodeCount - 1)
            IN  /\ firstDominatedNodeIndex' = b.indexArray
                /\ dominatedNodes' = b.dominatedNodes
                /\ pc' = "calculateObjectNames"
                /\ UNCHANGED error
    /\ UNCHANGED <<nodes, strings, inputVars, indexVars, flags, nodeDistances, postOrderVars,
                   dominatorsTree, retainedSizes>>

\* ------------------------------------------------------- object names
\* HeapSnapshotNode.rawType and type
rawType(nodeIndex) == nodes[nodeIndex + nodeTypeOffset]
type(nodeIndex) == node_types[rawType(nodeIndex) + 1]

\* HeapSnapshotNode.classIndex and className on the arrays given
classIndexOf(ns, nodeIndex) ==
    ns[nodeIndex + nodeDetachednessAndClassIndexOffset] \div Pow2(SHIFT_FOR_CLASS_INDEX)
classIndex(nodeIndex) == classIndexOf(nodes, nodeIndex)
className(nodeIndex) == strings[classIndex(nodeIndex)]

\* HeapSnapshotNode.setClassIndex: keep the link state bits, store the index above them
setClassIndex(ns, nodeIndex, index) ==
    LET value == ns[nodeIndex + nodeDetachednessAndClassIndexOffset]
    IN  [ns EXCEPT ![nodeIndex + nodeDetachednessAndClassIndexOffset] =
             BitAnd(value, BITMASK_FOR_DOM_LINK_STATE) + index * Pow2(SHIFT_FOR_CLASS_INDEX)]

\* String.prototype.indexOf(c, from) for a one-character c: -1 when absent
RECURSIVE indexOf(_, _, _)
indexOf(s, c, from) ==
    IF from >= Len(s) THEN -1
    ELSE IF CharAt(s, from + 1) = c THEN from
    ELSE indexOf(s, c, from + 1)

\* the closure getIndexForString; t is [strings, stringTable]: the strings
\* added here are not deduplicated with the strings of the profile
getIndexForString(t, s) ==
    IF s \in DOMAIN t.stringTable THEN [t |-> t, index |-> t.stringTable[s]]
    ELSE [t |-> [strings |-> addString(t.strings, s),
                 stringTable |-> t.stringTable @@ (s :> ArrayLen(t.strings))],
          index |-> ArrayLen(t.strings)]

\* the closure getNodeClassIndex
getNodeClassIndex(t, nodeIndex) ==
    LET name == t.strings[nodes[nodeIndex + nodeNameOffset]]
        tag(from) == LET firstSpace == indexOf(name, " ", from)
                     IN  IF firstSpace # -1 THEN SubSeq(name, 1, firstSpace) \o ">" ELSE name
    IN  CASE rawType(nodeIndex) = nodeHiddenType -> getIndexForString(t, "(system)")
          [] rawType(nodeIndex) \in {nodeObjectType, nodeNativeType} ->
                IF startsWith(name, "<") THEN getIndexForString(t, tag(0))
                ELSE IF startsWith(name, "Detached <") THEN getIndexForString(t, tag(10))
                ELSE [t |-> t, index |-> nodes[nodeIndex + nodeNameOffset]]
          [] rawType(nodeIndex) = nodeCodeType -> getIndexForString(t, "(compiled code)")
          [] rawType(nodeIndex) = nodeClosureType -> getIndexForString(t, "Function")
          [] rawType(nodeIndex) = nodeRegExpType -> getIndexForString(t, "RegExp")
          [] OTHER -> getIndexForString(t, "(" \o type(nodeIndex) \o ")")

\* for (let i = 0; i < nodeCount; ++i) node.setClassIndex(getNodeClassIndex(node))
RECURSIVE classIndexLoop(_, _, _)
classIndexLoop(t, ns, i) ==
    IF i >= nodeCount THEN [strings |-> t.strings, nodes |-> ns]
    ELSE LET set(c) == classIndexLoop(c.t, setClassIndex(ns, i * nodeFieldCount, c.index), i + 1)
         IN  set(getNodeClassIndex(t, i * nodeFieldCount))

\* the four class names every snapshot gets, in the order of their getIndexForString calls
FixedClassNames == <<"(system)", "(compiled code)", "Function", "RegExp">>

RECURSIVE addFixedClassNames(_, _)
addFixedClassNames(t, k) ==
    IF k > Len(FixedClassNames) THEN t
    ELSE addFixedClassNames(getIndexForString(t, FixedClassNames[k]).t, k + 1)

calculateObjectNames ==
    /\ pc = "calculateObjectNames"
    /\ LET named(r) == nodes' = r.nodes /\ strings' = r.strings
       IN  named(classIndexLoop(addFixedClassNames([strings |-> strings, stringTable |-> <<>>], 1), nodes, 0))
    /\ pc' = "done"
    /\ UNCHANGED <<inputVars, indexVars, flags, nodeDistances, postOrderVars, treeVars, error>>

\* ------------------------------------------------------------ node names
StrFirst == "first"
StrSecond == "second"
MaxConsNameLength == 1024

\* the edge scan of consStringName: the targets of the first internal edges
\* named 'first' and 'second', 0 for a part that is missing
RECURSIVE consParts(_, _, _)
consParts(parts, edgeIndex, endEdgeIndex) ==
    IF edgeIndex >= endEdgeIndex \/ (parts.first # 0 /\ parts.second # 0) THEN parts
    ELSE LET internalName == IF containmentEdges[edgeIndex + edgeTypeOffset] = edgeInternalType
                             THEN strings[containmentEdges[edgeIndex + edgeNameOffset]] ELSE ""
             to == containmentEdges[edgeIndex + edgeToNodeOffset]
         IN  consParts(IF internalName = StrFirst THEN [parts EXCEPT !.first = to]
                       ELSE IF internalName = StrSecond THEN [parts EXCEPT !.second = to]
                       ELSE parts,
                       edgeIndex + edgeFieldsCount, endEdgeIndex)

\* JSHeapSnapshotNode.consStringName: the stack walk over the parts
RECURSIVE consStringName(_, _)
consStringName(nodesStack, name) ==
    IF Len(nodesStack) = 0 \/ Len(name) >= MaxConsNameLength THEN name
    ELSE LET nodeIndex == nodesStack[Len(nodesStack)]
             rest == SubSeq(nodesStack, 1, Len(nodesStack) - 1)
             pushed(parts) == rest \o <<parts.second, parts.first>>
         IN  IF rawType(nodeIndex) # nodeConsStringType
             THEN consStringName(rest, name \o rawName(nodeIndex))
             ELSE consStringName(pushed(consParts([first |-> 0, second |-> 0],
                                                  firstEdgeIndexes[nodeIndex \div nodeFieldCount],
                                                  firstEdgeIndexes[nodeIndex \div nodeFieldCount + 1])),
                                 name)

\* JSHeapSnapshotNode.name; lazyStringCache only remembers the value computed here
nodeName(nodeIndex) ==
    IF rawType(nodeIndex) = nodeConsStringType THEN consStringName(<<nodeIndex>>, "") ELSE rawName(nodeIndex)

\* HeapSnapshotNode.isFlatConsString
isFlatConsString(nodeIndex) ==
    /\ rawType(nodeIndex) = nodeConsStringType
    /\ \E edgeIndex \in firstEdgeIndexes[nodeIndex \div nodeFieldCount]
                        .. firstEdgeIndexes[nodeIndex \div nodeFieldCount + 1] - 1 :
           /\ (edgeIndex - firstEdgeIndexes[nodeIndex \div nodeFieldCount]) % edgeFieldsCount = 0
           /\ containmentEdges[edgeIndex + edgeTypeOffset] = edgeInternalType
           /\ edgeName(edgeIndex) \in {StrFirst, StrSecond}
           /\ nodeName(containmentEdges[edgeIndex + edgeToNodeOffset]) = ""

\* ---------------------------------------------------------------- filters
\* an argument or a value that is undefined or null
undefined == <<>>

\* the filter names createNamedFilter knows that need no traversal of their own
StrDuplicatedStrings == "duplicatedStrings"

\* case 'duplicatedStrings' with the first node of a name left unmarked
RECURSIVE duplicatedStringsLoopLaterOnly(_, _)
duplicatedStringsLoopLaterOnly(m, i) ==
    IF i >= nodeCount THEN m.bitmap
    ELSE LET visit(name) ==
                 IF name \notin DOMAIN m.stringToNodeIndexMap
                 THEN [m EXCEPT !.stringToNodeIndexMap = @ @@ (name :> i * nodeFieldCount)]
                 ELSE [m EXCEPT !.bitmap = @ \cup {i}]
         IN  IF rawType(i * nodeFieldCount) \in {nodeStringType, nodeConsStringType}
                /\ ~isFlatConsString(i * nodeFieldCount)
             THEN duplicatedStringsLoopLaterOnly(visit(nodeName(i * nodeFieldCount)), i + 1)
             ELSE duplicatedStringsLoopLaterOnly(m, i + 1)

\* case 'duplicatedStrings': the bitmap after the loop over the nodes; m is
\* [stringToNodeIndexMap, bitmap]
RECURSIVE duplicatedStringsLoop(_, _)
duplicatedStringsLoop(m, i) ==
    IF i >= nodeCount THEN m.bitmap
    ELSE LET nodeIndex == i * nodeFieldCount
             visit(name) ==
                 IF name \notin DOMAIN m.stringToNodeIndexMap
                 THEN [m EXCEPT !.stringToNodeIndexMap = @ @@ (name :> nodeIndex)]
                 ELSE [m EXCEPT !.bitmap = @ \cup {m.stringToNodeIndexMap[name] \div nodeFieldCount, i}]
         IN  IF rawType(nodeIndex) \in {nodeStringType, nodeConsStringType} /\ ~isFlatConsString(nodeIndex)
             THEN duplicatedStringsLoop(visit(nodeName(nodeIndex)), i + 1)
             ELSE duplicatedStringsLoop(m, i + 1)

\* createNamedFilter that takes every name for 'duplicatedStrings'
createNamedFilterOfAnyName(filterName) ==
    [threw |-> "", kind |-> "bitmap",
     bitmap |-> duplicatedStringsLoop([stringToNodeIndexMap |-> <<>>, bitmap |-> {}], 0)]

\* HeapSnapshot.createNamedFilter for the names that do not traverse the graph:
\* the filter, or the message of the Error thrown
createNamedFilter(filterName) ==
    IF filterName = StrDuplicatedStrings
    THEN [threw |-> "", kind |-> "bitmap",
          bitmap |-> duplicatedStringsLoop([stringToNodeIndexMap |-> <<>>, bitmap |-> {}], 0)]
    ELSE [threw |-> "Invalid filter name"]

\* HeapSnapshot.createFilter; the generated profiles have no trace_function_count,
\* so there is no allocation profile
createFilter(nodeFilter) ==
    IF nodeFilter.allocationNodeId # undefined
    THEN [threw |-> "No Allocation Profile provided"]
    ELSE IF nodeFilter.minNodeId # undefined /\ nodeFilter.maxNodeId # undefined
    THEN [threw |-> "", kind |-> "nodeId", minNodeId |-> nodeFilter.minNodeId[1],
          maxNodeId |-> nodeFilter.maxNodeId[1],
          key |-> "NodeIdRange: " \o NumberToString(nodeFilter.minNodeId[1]) \o ".."
                      \o NumberToString(nodeFilter.maxNodeId[1])]
    ELSE IF nodeFilter.filterName # undefined
    THEN LET keyed(filter) == IF filter.threw # "" THEN filter
                              ELSE [threw |-> "", kind |-> "bitmap", bitmap |-> filter.bitmap,
                                    key |-> "NamedFilter: " \o nodeFilter.filterName[1]]
         IN  keyed(createNamedFilter(nodeFilter.filterName[1]))
    ELSE [threw |-> "", kind |-> "none"]

\* filter(node) of a filter made by createFilter; no filter accepts every node
accepts(filter, nodeIndex) ==
    CASE filter.kind = "nodeId" -> nodes[nodeIndex + nodeIdOffset] > filter.minNodeId
                                   /\ nodes[nodeIndex + nodeIdOffset] <= filter.maxNodeId
      [] filter.kind = "bitmap" -> nodeIndex \div nodeFieldCount \in filter.bitmap
      [] OTHER -> TRUE

\* -------------------------------------------------------------- aggregates
\* buildAggregates: b is [aggregates, aggregatesByClassName]; aggregates maps a
\* class index to its record, aggregatesByClassName maps a class name to the
\* class index whose record it refers to
RECURSIVE buildAggregatesLoop(_, _, _)
buildAggregatesLoop(b, filter, nodeIndex) ==
    IF nodeIndex >= ArrayLen(nodes) THEN b
    ELSE LET next(b1) == buildAggregatesLoop(b1, filter, nodeIndex + nodeFieldCount)
             size == nodes[nodeIndex + nodeSelfSizeOffset]
             index == classIndex(nodeIndex)
             distance == nodeDistances[nodeIndex \div nodeFieldCount]
             nameMatters == type(nodeIndex) \in {"object", "native"}
             value == [count |-> 1, distance |-> distance, self |-> size, maxRet |-> 0,
                       type |-> type(nodeIndex),
                       name |-> IF nameMatters THEN <<className(nodeIndex)>> ELSE undefined,
                       idxs |-> <<nodeIndex>>]
         IN  IF ~accepts(filter, nodeIndex) \/ size = 0 THEN next(b)
             ELSE IF index \notin DOMAIN b.aggregates
             THEN next([aggregates |-> b.aggregates @@ (index :> value),
                        aggregatesByClassName |->
                            [n \in DOMAIN b.aggregatesByClassName \cup {className(nodeIndex)} |->
                                IF n = className(nodeIndex) THEN index ELSE b.aggregatesByClassName[n]]])
             ELSE next([b EXCEPT !.aggregates[index] =
                            [@ EXCEPT !.distance = IF distance < @ THEN distance ELSE @,
                                      !.count = @ + 1,
                                      !.self = @ + size,
                                      !.idxs = Append(@, nodeIndex)]])

buildAggregates(filter) ==
    buildAggregatesLoop([aggregates |-> <<>>, aggregatesByClassName |-> <<>>], filter, 0)

\* list.push(dominatedNodes[i]) for i from dominatedIndexFrom to dominatedIndexTo
RECURSIVE pushDominated(_, _, _)
pushDominated(list, i, dominatedIndexTo) ==
    IF i >= dominatedIndexTo THEN list
    ELSE pushDominated(Append(list, Load(dominatedNodes, i)), i + 1, dominatedIndexTo)

\* while (sizes[sizes.length - 1] === l): leave the classes whose subtree is done
RECURSIVE leaveClasses(_, _)
leaveClasses(c, l) ==
    IF Len(c.sizes) > 0 /\ c.sizes[Len(c.sizes)] = l /\ Len(c.classes) > 0
    THEN leaveClasses([c EXCEPT !.sizes = SubSeq(@, 1, Len(@) - 1),
                                !.seen = @ \ {c.classes[Len(c.classes)]},
                                !.classes = SubSeq(@, 1, Len(@) - 1)], l)
    ELSE c

\* calculateClassesRetainedSize: c is [list, sizes, classes, seen, aggregates]
RECURSIVE classesRetainedSizeLoop(_, _)
classesRetainedSizeLoop(c, filter) ==
    IF Len(c.list) = 0 THEN c.aggregates
    ELSE LET nodeIndex == c.list[Len(c.list)]
             popped == SubSeq(c.list, 1, Len(c.list) - 1)
             index == classIndex(nodeIndex)
             nodeOrdinal == nodeIndex \div nodeFieldCount
             dominatedIndexFrom == firstDominatedNodeIndex[nodeOrdinal]
             dominatedIndexTo == firstDominatedNodeIndex[nodeOrdinal + 1]
             counted == index \notin c.seen /\ accepts(filter, nodeIndex)
                        /\ nodes[nodeIndex + nodeSelfSizeOffset] # 0
             entered == counted /\ dominatedIndexFrom # dominatedIndexTo
             c1 == [list |-> pushDominated(popped, dominatedIndexFrom, dominatedIndexTo),
                    sizes |-> IF entered THEN Append(c.sizes, Len(popped)) ELSE c.sizes,
                    classes |-> IF entered THEN Append(c.classes, index) ELSE c.classes,
                    seen |-> IF entered THEN c.seen \cup {index} ELSE c.seen,
                    aggregates |-> IF counted
                                   THEN [c.aggregates EXCEPT ![index].maxRet = @ + retainedSizes[nodeOrdinal]]
                                   ELSE c.aggregates]
         IN  classesRetainedSizeLoop(leaveClasses(c1, Len(c1.list)), filter)

calculateClassesRetainedSize(aggregatesByClassIndex, filter) ==
    classesRetainedSizeLoop([list |-> <<rootNodeIndexInternal>>, sizes |-> <<-1>>, classes |-> <<>>,
                             seen |-> {}, aggregates |-> aggregatesByClassIndex], filter)

\* Array.prototype.sort with the comparator of sortAggregateIndexes, which
\* orders two node indexes by the ids of their nodes: insertion of each index
\* behind the indexes with a smaller id
\* the indexes left in the order of the nodes
sortByIdSkipped(idxs) == idxs

RECURSIVE sortById(_)
sortById(idxs) ==
    IF Len(idxs) <= 1 THEN idxs
    ELSE LET last == idxs[Len(idxs)]
             front == sortById(SubSeq(idxs, 1, Len(idxs) - 1))
             before == Cardinality({k \in 1 .. Len(front) :
                                       nodes[front[k] + nodeIdOffset] < nodes[last + nodeIdOffset]})
         IN  SubSeq(front, 1, before) \o <<last>> \o SubSeq(front, before + 1, Len(front))

sortAggregateIndexes(aggregatesByClassName) ==
    [n \in DOMAIN aggregatesByClassName |-> [aggregatesByClassName[n] EXCEPT !.idxs = sortById(@)]]

\* getAggregatesByClassName: the value returned with the two caches as the
\* call leaves them; the cached object is the one sorted and returned
getAggregatesByClassName(sortedIndexes, key, filter) ==
    LET byName(b, sized) == [n \in DOMAIN b.aggregatesByClassName |-> sized[b.aggregatesByClassName[n]]]
        fresh(b) == byName(b, calculateClassesRetainedSize(b.aggregates, filter))
        sorts == sortedIndexes /\ key \notin aggregatesSortedFlags
        out(value) == [value |-> value,
                       aggregates |-> [k \in DOMAIN aggregates \cup {key} |->
                                          IF k = key THEN value ELSE aggregates[k]],
                       aggregatesSortedFlags |-> IF sorts THEN aggregatesSortedFlags \cup {key}
                                                 ELSE aggregatesSortedFlags]
        sorted(found) == out(IF sorts THEN sortAggregateIndexes(found) ELSE found)
    IN  sorted(IF key \in DOMAIN aggregates THEN aggregates[key] ELSE fresh(buildAggregates(filter)))

\* what initialize computes, which no query writes
analysisVars == <<nodes, strings, containmentEdges, rootNodeIndexInternal, serialized, indexVars, flags,
                  nodeDistances, postOrderVars, treeVars, pc, error>>

\* the node filters of the host: none, an id range, a filter name the engine
\* knows, one it does not know, an allocation node, an id range together
\* with a name the engine does not know
NoNodeFilter == [minNodeId |-> undefined, maxNodeId |-> undefined, allocationNodeId |-> undefined,
                 filterName |-> undefined]
NodeFilters == {NoNodeFilter,
                [NoNodeFilter EXCEPT !.minNodeId = <<3>>, !.maxNodeId = <<7>>],
                [NoNodeFilter EXCEPT !.filterName = <<StrDuplicatedStrings>>],
                [NoNodeFilter EXCEPT !.filterName = <<"objectsRetainedByNothing">>],
                [NoNodeFilter EXCEPT !.allocationNodeId = <<1>>],
                [NoNodeFilter EXCEPT !.minNodeId = <<3>>, !.maxNodeId = <<7>>,
                                     !.filterName = <<"objectsRetainedByNothing">>]}

\* HeapSnapshot.aggregatesWithFilter
aggregatesWithFilter ==
    /\ pc = "done"
    /\ \E nodeFilter \in NodeFilters :
        LET got(r) == /\ reply' = [threw |-> "", value |-> r.value]
                      /\ aggregates' = r.aggregates
                      /\ aggregatesSortedFlags' = r.aggregatesSortedFlags
            answered(filter) ==
                IF filter.threw # ""
                THEN reply' = [threw |-> filter.threw, value |-> undefined]
                     /\ UNCHANGED <<aggregates, aggregatesSortedFlags>>
                ELSE got(getAggregatesByClassName(FALSE,
                                                  IF filter.kind # "none" THEN filter.key ELSE "allObjects",
                                                  filter))
        IN  /\ called' = [name |-> "aggregatesWithFilter", nodeFilter |-> nodeFilter]
            /\ answered(createFilter(nodeFilter))
    /\ UNCHANGED <<analysisVars, snapshotDiffs, retainersViewVars, providerVars, cancelled>>

\* ------------------------------------------------------------------- diff
\* HeapSnapshotModel.Diff as constructed
emptyDiff == [addedCount |-> 0, removedCount |-> 0, addedSize |-> 0, removedSize |-> 0,
              deletedIndexes |-> <<>>, addedIndexes |-> <<>>, countDelta |-> 0, sizeDelta |-> 0]

\* HeapSnapshotModel.AggregateForDiff as constructed
emptyBaseAggregate == [indexes |-> <<>>, ids |-> <<>>, selfSizes |-> <<>>]

\* the three loops of calculateDiffForClass: i and j are 0-based positions in
\* the base aggregate and in indexes
RECURSIVE diffLoop(_, _, _, _, _)
diffLoop(diff, baseAggregate, indexes, i, j) ==
    LET l == Len(baseAggregate.ids)
        m == Len(indexes)
        deleted == [diff EXCEPT !.deletedIndexes = Append(@, baseAggregate.indexes[i + 1]),
                                !.removedCount = @ + 1,
                                !.removedSize = @ + baseAggregate.selfSizes[i + 1]]
        added == [diff EXCEPT !.addedIndexes = Append(@, indexes[j + 1]),
                              !.addedCount = @ + 1,
                              !.addedSize = @ + nodes[indexes[j + 1] + nodeSelfSizeOffset]]
    IN  IF i < l /\ j < m
        THEN IF baseAggregate.ids[i + 1] < nodes[indexes[j + 1] + nodeIdOffset]
             THEN diffLoop(deleted, baseAggregate, indexes, i + 1, j)
             ELSE IF baseAggregate.ids[i + 1] > nodes[indexes[j + 1] + nodeIdOffset]
             THEN diffLoop(added, baseAggregate, indexes, i, j + 1)
             ELSE diffLoop(diff, baseAggregate, indexes, i + 1, j + 1)
        ELSE IF i < l THEN diffLoop(deleted, baseAggregate, indexes, i + 1, j)
        ELSE IF j < m THEN diffLoop(added, baseAggregate, indexes, i, j + 1)
        ELSE diff

\* HeapSnapshot.calculateDiffForClass; undefined stands for null
calculateDiffForClass(baseAggregate, indexes) ==
    LET finished(diff) ==
            IF diff.addedCount = 0 /\ diff.removedCount = 0 THEN undefined
            ELSE <<[diff EXCEPT !.countDelta = diff.addedCount - diff.removedCount,
                                !.sizeDelta = diff.addedSize - diff.removedSize]>>
    IN  finished(diffLoop(emptyDiff, baseAggregate, indexes, 0, 0))

\* the two loops of calculateSnapshotDiff over the class names of the base
\* snapshot and of this one
diffByClassName(baseSnapshotAggregates, current) ==
    LET diffOf(n) == calculateDiffForClass(IF n \in DOMAIN baseSnapshotAggregates
                                           THEN baseSnapshotAggregates[n] ELSE emptyBaseAggregate,
                                           IF n \in DOMAIN current THEN current[n].idxs ELSE <<>>)
        changed == {n \in DOMAIN baseSnapshotAggregates \cup DOMAIN current : diffOf(n) # undefined}
    IN  [n \in changed |-> diffOf(n)[1]]

\* the aggregatesForDiff of the snapshots the host compares this one with, by
\* snapshot id; their ids are sorted ascending as aggregatesForDiff leaves them
BaseSnapshots ==
    (1 :> ("Object" :> [indexes |-> <<7, 14>>, ids |-> <<3, 5>>, selfSizes |-> <<16, 32>>]))
    @@ (2 :> (("Object" :> [indexes |-> <<14, 21, 35>>, ids |-> <<4, 7, 11>>, selfSizes |-> <<16, 32, 64>>])
              @@ ("Map" :> [indexes |-> <<7>>, ids |-> <<5>>, selfSizes |-> <<128>>])))
    @@ (3 :> <<>>)

\* HeapSnapshot.calculateSnapshotDiff
calculateSnapshotDiff ==
    /\ pc = "done"
    /\ \E baseSnapshotId \in DOMAIN BaseSnapshots :
        LET stored(r, snapshotDiff) ==
                /\ snapshotDiffs' = [k \in DOMAIN snapshotDiffs \cup {baseSnapshotId} |->
                                        IF k = baseSnapshotId THEN snapshotDiff ELSE snapshotDiffs[k]]
                /\ aggregates' = r.aggregates
                /\ aggregatesSortedFlags' = r.aggregatesSortedFlags
                /\ reply' = [threw |-> "", value |-> snapshotDiff]
            computed(r) == stored(r, diffByClassName(BaseSnapshots[baseSnapshotId], r.value))
        IN  /\ called' = [name |-> "calculateSnapshotDiff", baseSnapshotId |-> baseSnapshotId]
            /\ IF baseSnapshotId \in DOMAIN snapshotDiffs
               THEN /\ reply' = [threw |-> "", value |-> snapshotDiffs[baseSnapshotId]]
                    /\ UNCHANGED aggregateVars
               ELSE computed(getAggregatesByClassName(TRUE, "allObjects", [threw |-> "", kind |-> "none"]))
    /\ UNCHANGED <<analysisVars, retainersViewVars, providerVars, cancelled>>

\* --------------------------------------------------------------- providers
\* the comparator configurations of the host: two node fields and their directions
ComparatorConfigs == {[fieldName1 |-> "selfSize", ascending1 |-> TRUE, fieldName2 |-> "id", ascending2 |-> TRUE],
                      [fieldName1 |-> "selfSize", ascending1 |-> FALSE, fieldName2 |-> "id", ascending2 |-> FALSE]}

\* fieldAccessor.call(node) for the accessors the configurations name
fieldValue(fieldName, nodeIndex) ==
    IF fieldName = "selfSize" THEN nodes[nodeIndex + nodeSelfSizeOffset] ELSE nodes[nodeIndex + nodeIdOffset]

\* the closure sortByComparator of buildCompareFunction
sortByComparator(comparator, indexA, indexB) ==
    LET sortByNodeField(fieldName, direction) ==
            IF fieldValue(fieldName, indexA) < fieldValue(fieldName, indexB) THEN 0 - direction
            ELSE IF fieldValue(fieldName, indexA) > fieldValue(fieldName, indexB) THEN direction
            ELSE 0
        first == sortByNodeField(comparator.fieldName1, IF comparator.ascending1 THEN 1 ELSE -1)
        second == sortByNodeField(comparator.fieldName2, IF comparator.ascending2 THEN 1 ELSE -1)
    IN  IF first # 0 THEN first ELSE IF second # 0 THEN second ELSE indexA - indexB

\* the arrays Platform.ArrayUtilities.sortRange can leave: the items between
\* leftBound and rightBound rearranged so that every position of the window
\* between them holds the item a sort of that range puts there; positions
\* are 0-based, the array is a sequence
sortRange(array, comparator, leftBound, rightBound, windowLeft, windowRight) ==
    LET inRange(k) == leftBound <= k - 1 /\ k - 1 <= rightBound
        inWindow(k) == inRange(k) /\ windowLeft <= k - 1 /\ k - 1 <= windowRight
        smaller(out, k) == Cardinality({j \in 1 .. Len(array) :
                                           inRange(j) /\ sortByComparator(comparator, out[j], out[k]) < 0})
    IN  {out \in {[k \in 1 .. Len(array) |-> array[p[k]]] : p \in Permutations(1 .. Len(array))} :
            /\ \A k \in 1 .. Len(array) : ~inRange(k) => out[k] = array[k]
            /\ \A k \in 1 .. Len(array) : inWindow(k) => smaller(out, k) = k - 1 - leftBound}

\* HeapSnapshotNodesProvider over all nodes: the indexes its iterator yields
providedIndexes == [k \in 1 .. nodeCount |-> (k - 1) * nodeFieldCount]

\* HeapSnapshotItemProvider.sortAndRewind
sortAndRewind ==
    /\ pc = "done"
    /\ \E comparator \in ComparatorConfigs :
        /\ currentComparator' = <<comparator>>
        /\ called' = [name |-> "sortAndRewind", comparator |-> comparator]
    /\ sortedPrefixLength' = 0
    /\ sortedSuffixLength' = 0
    /\ reply' = [threw |-> "", value |-> undefined]
    /\ UNCHANGED <<analysisVars, aggregateVars, retainersViewVars, iterationOrder, cancelled>>

\* the lengths serializeItemsRange records after its sort, with the prefix
\* extended whatever the window
sortedLengthsWhatever(begin, end, length) ==
    [prefix |-> end,
     suffix |-> IF end >= length - sortedSuffixLength THEN length - begin ELSE sortedSuffixLength]

\* the lengths serializeItemsRange records after its sort
sortedLengths(begin, end, length) ==
    [prefix |-> IF begin <= sortedPrefixLength THEN end ELSE sortedPrefixLength,
     suffix |-> IF end >= length - sortedSuffixLength THEN length - begin ELSE sortedSuffixLength]

\* the positions the host asks for
MaxPosition == 5

\* HeapSnapshotItemProvider.serializeItemsRange; createIterationOrder fills
\* iterationOrder at the first call, new Array(count) throws for a count below 0
serializeItemsRange ==
    /\ pc = "done"
    /\ \E begin, requestedEnd \in 0 .. MaxPosition :
        LET order == IF iterationOrder = undefined THEN providedIndexes ELSE iterationOrder[1]
            end == IF requestedEnd > Len(order) THEN Len(order) ELSE requestedEnd
            sorts == sortedPrefixLength < end /\ begin < Len(order) - sortedSuffixLength
                     /\ currentComparator # undefined
            recorded(lengths) == /\ sortedPrefixLength' = lengths.prefix
                                 /\ sortedSuffixLength' = lengths.suffix
        IN  /\ called' = [name |-> "serializeItemsRange", begin |-> begin, end |-> requestedEnd]
            /\ IF begin > requestedEnd
               THEN /\ reply' = [threw |-> "Start position > end position", value |-> undefined]
                    /\ iterationOrder' = <<order>>
                    /\ UNCHANGED <<sortedPrefixLength, sortedSuffixLength>>
               ELSE /\ IF sorts
                       THEN /\ \E out \in sortRange(order, currentComparator[1], sortedPrefixLength,
                                                    Len(order) - 1 - sortedSuffixLength, begin, end - 1) :
                                   iterationOrder' = <<out>>
                            /\ recorded(sortedLengths(begin, end, Len(order)))
                       ELSE /\ iterationOrder' = <<order>>
                            /\ UNCHANGED <<sortedPrefixLength, sortedSuffixLength>>
                    /\ reply' = IF end - begin < 0
                                THEN [threw |-> "RangeError: Invalid array length", value |-> undefined]
                                ELSE [threw |-> "", value |-> SubSeq(iterationOrder'[1], begin + 1, end)]
    /\ UNCHANGED <<analysisVars, aggregateVars, retainersViewVars, currentComparator, cancelled>>

\* ---------------------------------------------------------- retainers view
baseUnreachableDistance == baseSystemDistance + 1

\* the edge indexes of a node: node.edges()
edgesOf(nodeOrdinal) ==
    {edgeIndex \in firstEdgeIndexes[nodeOrdinal] .. firstEdgeIndexes[nodeOrdinal + 1] - 1 :
        (edgeIndex - firstEdgeIndexes[nodeOrdinal]) % edgeFieldsCount = 0}

\* the WeakMap name of an internal edge, <<>> when it has none
weakMapPart(edgeIndex) ==
    LET part(match) == IF match.match THEN <<match.duplicatedPart>> ELSE undefined
    IN  IF containmentEdges[edgeIndex + edgeTypeOffset] # edgeInternalType THEN undefined
        ELSE part(tryParseWeakMapEdgeName(containmentEdges[edgeIndex + edgeNameOffset]))

\* #updateIgnoredEdgesInRetainersView: the set it leaves for the distances
\* given, <<>> for undefined
updateIgnoredEdgesInRetainersView(distances) ==
    IF distances = undefined THEN {}
    ELSE LET unreachableWeakMapEdges ==
                 {<<containmentEdges[edgeIndex + edgeToNodeOffset], weakMapPart(edgeIndex)[1]>> :
                     edgeIndex \in {e \in UNION {edgesOf(o) : o \in {o \in 0 .. nodeCount - 1 :
                                                                     distances[1][o] = noDistance}} :
                                        weakMapPart(e) # undefined}}
             retainerSlots_(targetNodeIndex) ==
                 firstRetainerIndex[targetNodeIndex \div nodeFieldCount]
                     .. firstRetainerIndex[targetNodeIndex \div nodeFieldCount + 1] - 1
         IN  UNION {{retainingEdges[slot] : slot \in {r \in retainerSlots_(pair[1]) :
                                                   /\ weakMapPart(retainingEdges[r]) # undefined
                                                   /\ <<pair[1], weakMapPart(retainingEdges[r])[1]>>
                                                          \in unreachableWeakMapEdges}} :
                    pair \in unreachableWeakMapEdges}

\* calculateDistances(true) as a call of the retainers view: the array it
\* leaves in #nodeDistancesForRetainersView and whether it threw
retainersViewDistances(ignoredNodes) ==
    LET left(r) == [distances |-> <<r.distances>>, failed |-> r.failed]
    IN  left(calculateDistancesOf(TRUE, ignoredNodes))

\* the distances unignoreNodeInRetainersView leaves when it does not compute them again
afterUnignoreKept(remaining) == [distances |-> nodeDistancesForRetainersView, failed |-> FALSE]

\* unignoreNodeInRetainersView after the delete: undefined for an empty set
afterUnignore(remaining) ==
    IF remaining = {} THEN [distances |-> undefined, failed |-> FALSE]
    ELSE retainersViewDistances(remaining)

\* what a call of the retainers view leaves once the distances r are known:
\* 'BFS failed' leaves the ignored edges as they were
retainersViewLeft(r) ==
    /\ nodeDistancesForRetainersView' = r.distances
    /\ ignoredEdgesInRetainersView' = IF r.failed THEN ignoredEdgesInRetainersView
                                      ELSE updateIgnoredEdgesInRetainersView(r.distances)
    /\ reply' = [threw |-> IF r.failed THEN "BFS failed" ELSE "", value |-> undefined]

ignoreNodeInRetainersView ==
    /\ pc = "done"
    /\ \E nodeIndex \in {o * nodeFieldCount : o \in 0 .. nodeCount - 1} :
        /\ ignoredNodesInRetainersView' = ignoredNodesInRetainersView \cup {nodeIndex}
        /\ called' = [name |-> "ignoreNodeInRetainersView", nodeIndex |-> nodeIndex]
        /\ retainersViewLeft(retainersViewDistances(ignoredNodesInRetainersView \cup {nodeIndex}))
    /\ UNCHANGED <<analysisVars, aggregateVars, providerVars, cancelled>>

unignoreNodeInRetainersView ==
    /\ pc = "done"
    /\ \E nodeIndex \in {o * nodeFieldCount : o \in 0 .. nodeCount - 1} :
        /\ ignoredNodesInRetainersView' = ignoredNodesInRetainersView \ {nodeIndex}
        /\ called' = [name |-> "unignoreNodeInRetainersView", nodeIndex |-> nodeIndex]
        /\ retainersViewLeft(afterUnignore(ignoredNodesInRetainersView \ {nodeIndex}))
    /\ UNCHANGED <<analysisVars, aggregateVars, providerVars, cancelled>>

unignoreAllNodesInRetainersView ==
    /\ pc = "done"
    /\ ignoredNodesInRetainersView' = {}
    /\ called' = [name |-> "unignoreAllNodesInRetainersView"]
    /\ retainersViewLeft([distances |-> undefined, failed |-> FALSE])
    /\ UNCHANGED <<analysisVars, aggregateVars, providerVars, cancelled>>

\* HeapSnapshot.getDistanceForRetainersView
getDistanceForRetainersView(nodeIndex) ==
    LET distances == IF nodeDistancesForRetainersView # undefined THEN nodeDistancesForRetainersView[1]
                     ELSE nodeDistances
        distance == distances[nodeIndex \div nodeFieldCount]
        original == nodeDistances[nodeIndex \div nodeFieldCount]
    IN  IF distance = noDistance
        THEN (IF original > 0 THEN original ELSE 0) + baseUnreachableDistance
        ELSE distance

\* ------------------------------------------------------------ retainer edges
\* the distance of a retainer edge without regard to the ignored edges
retainerEdgeDistanceOfNode(retainerIndex) == getDistanceForRetainersView(retainingNodes[retainerIndex])

\* HeapSnapshotRetainerEdge.#distance of the retainer in slot retainerIndex
retainerEdgeDistance(retainerIndex) ==
    IF retainingEdges[retainerIndex] \in ignoredEdgesInRetainersView THEN baseUnreachableDistance
    ELSE getDistanceForRetainersView(retainingNodes[retainerIndex])

\* HeapSnapshotRetainerEdge.serialize: the edge with its retaining node
retainerEdgeSerialize(retainerIndex) ==
    LET nodeIndex == retainingNodes[retainerIndex]
    IN  [name |-> edgeName(retainingEdges[retainerIndex]),
         node |-> [id |-> nodes[nodeIndex + nodeIdOffset],
                   name |-> nodeName(nodeIndex),
                   distance |-> retainerEdgeDistance(retainerIndex),
                   nodeIndex |-> nodeIndex,
                   retainedSize |-> retainedSizes[nodeIndex \div nodeFieldCount],
                   selfSize |-> nodes[nodeIndex + nodeSelfSizeOffset],
                   type |-> nodes[nodeIndex + nodeTypeOffset],
                   ignored |-> nodeIndex \in ignoredNodesInRetainersView],
         type |-> containmentEdges[retainingEdges[retainerIndex] + edgeTypeOffset],
         edgeIndex |-> retainingEdges[retainerIndex]]

\* the host serializes the retainer in a slot
serializeRetainerEdge ==
    /\ pc = "done"
    /\ \E retainerIndex \in DOMAIN retainingEdges :
        /\ called' = [name |-> "HeapSnapshotRetainerEdge.serialize", retainerIndex |-> retainerIndex]
        /\ reply' = [threw |-> "", value |-> retainerEdgeSerialize(retainerIndex)]
    /\ UNCHANGED <<analysisVars, aggregateVars, retainersViewVars, providerVars, cancelled>>

\* HeapSnapshotRetainerEdge.getValueForSorting, as the sort of the retainers calls it
retainerEdgeValueForSorting ==
    /\ pc = "done"
    /\ \E retainerIndex \in DOMAIN retainingEdges : \E fieldName \in {"!edgeDistance", "!edgeName"} :
        /\ called' = [name |-> "HeapSnapshotRetainerEdge.getValueForSorting", retainerIndex |-> retainerIndex,
                      fieldName |-> fieldName]
        /\ reply' = IF fieldName = "!edgeDistance"
                    THEN [threw |-> "", value |-> retainerEdgeDistance(retainerIndex)]
                    ELSE [threw |-> "Invalid field name", value |-> undefined]
    /\ UNCHANGED <<analysisVars, aggregateVars, retainersViewVars, providerVars, cancelled>>

\* ------------------------------------------------------------ edges provider
\* the UTF-16 code unit of the characters of the edge names
CharCode(c) ==
    CASE c \in Digits -> 48 + DigitValue(c)
      [] c = "_" -> 95 [] c = "a" -> 97 [] c = "o" -> 111 [] c = "p" -> 112
      [] c = "r" -> 114 [] c = "t" -> 116

\* s < t of two JavaScript strings
RECURSIVE stringLess(_, _)
stringLess(s, t) ==
    IF Len(t) = 0 THEN FALSE
    ELSE IF Len(s) = 0 THEN TRUE
    ELSE IF CharCode(Head(s)) # CharCode(Head(t)) THEN CharCode(Head(s)) < CharCode(Head(t))
    ELSE stringLess(Tail(s), Tail(t))

\* JSHeapSnapshotEdge.hasStringName
hasStringName(edgeIndex) ==
    IF containmentEdges[edgeIndex + edgeTypeOffset] # edgeShortcutType THEN hasStringNameInternal(edgeIndex)
    ELSE parseInt(strings[containmentEdges[edgeIndex + edgeNameOffset]]).isNaN

\* the items of createRetainingEdgesProvider(nodeIndex): the retainer slots
\* that pass retainingEdgesFilter
retainerItems(nodeIndex) ==
    {retainerIndex \in firstRetainerIndex[nodeIndex \div nodeFieldCount]
                        .. firstRetainerIndex[nodeIndex \div nodeFieldCount + 1] - 1 :
        /\ containmentEdges[retainingEdges[retainerIndex] + edgeTypeOffset] # edgeInvisibleType
        /\ ~isRoot(retainingNodes[retainerIndex])
        /\ containmentEdges[retainingEdges[retainerIndex] + edgeTypeOffset] # edgeWeakType}

\* the comparator configurations of the host for retainers
EdgeComparatorConfigs ==
    {[fieldName1 |-> "!edgeName", ascending1 |-> TRUE, fieldName2 |-> "!edgeDistance", ascending2 |-> TRUE],
     [fieldName1 |-> "!edgeName", ascending1 |-> FALSE, fieldName2 |-> "selfSize", ascending2 |-> TRUE],
     [fieldName1 |-> "!edgeDistance", ascending1 |-> TRUE, fieldName2 |-> "!edgeName", ascending2 |-> TRUE],
     [fieldName1 |-> "selfSize", ascending1 |-> FALSE, fieldName2 |-> "!edgeName", ascending2 |-> FALSE],
     [fieldName1 |-> "selfSize", ascending1 |-> TRUE, fieldName2 |-> "id", ascending2 |-> FALSE]}

\* the closure compareEdgeField of HeapSnapshotEdgesProvider.sort, on retainers
compareEdgeField(fieldName, isAscending, indexA, indexB) ==
    LET nameA == edgeName(retainingEdges[indexA])
        nameB == edgeName(retainingEdges[indexB])
        stringA == hasStringName(retainingEdges[indexA])
        stringB == hasStringName(retainingEdges[indexB])
        result == IF stringA = stringB
                  THEN (IF stringLess(nameA, nameB) THEN -1 ELSE IF stringLess(nameB, nameA) THEN 1 ELSE 0)
                  ELSE IF stringA THEN -1 ELSE 1
        distance == retainerEdgeDistance(indexA) - retainerEdgeDistance(indexB)
    IN  IF fieldName = "!edgeName"
        THEN (IF nameB = StrProto THEN -1
              ELSE IF nameA = StrProto THEN 1
              ELSE IF isAscending THEN result ELSE 0 - result)
        ELSE IF isAscending THEN distance ELSE 0 - distance

\* the closure compareNodeField: the field of the retaining nodes
compareNodeField(fieldName, isAscending, indexA, indexB) ==
    LET valueA == fieldValue(fieldName, retainingNodes[indexA])
        valueB == fieldValue(fieldName, retainingNodes[indexB])
        result == IF valueA < valueB THEN -1 ELSE IF valueA > valueB THEN 1 ELSE 0
    IN  IF isAscending THEN result ELSE 0 - result

isEdgeFieldName(fieldName) == startsWith(fieldName, "!edge")

\* compareEdgeAndEdge, compareEdgeAndNode, compareNodeAndEdge and
\* compareNodeAndNode, as sort chooses among them by the field names
compareEdges(comparator, indexA, indexB) ==
    LET compareField(fieldName, isAscending) ==
            IF isEdgeFieldName(fieldName) THEN compareEdgeField(fieldName, isAscending, indexA, indexB)
            ELSE compareNodeField(fieldName, isAscending, indexA, indexB)
        first == compareField(comparator.fieldName1, comparator.ascending1)
        second == compareField(comparator.fieldName2, comparator.ascending2)
    IN  IF first # 0 THEN first
        ELSE IF second # 0 THEN second
        ELSE indexA - indexB

\* HeapSnapshotEdgesProvider.sort over the retainers of a node: one call of
\* the comparator that sortRange makes
compareRetainers ==
    /\ pc = "done"
    /\ \E nodeIndex \in {o * nodeFieldCount : o \in 0 .. nodeCount - 1} :
        \E comparator \in EdgeComparatorConfigs : \E indexA, indexB \in retainerItems(nodeIndex) :
            /\ called' = [name |-> "HeapSnapshotEdgesProvider.sort", nodeIndex |-> nodeIndex,
                          comparator |-> comparator, indexA |-> indexA, indexB |-> indexB]
            /\ reply' = [threw |-> "", value |-> compareEdges(comparator, indexA, indexB)]
    /\ UNCHANGED <<analysisVars, aggregateVars, retainersViewVars, providerVars, cancelled>>

\* ------------------------------------------------------------ cancellation
\* the host sets the cancellation flag while initialize is between two passes
cancel ==
    /\ pc \notin {"done", "error", "diverged"}
    /\ ~cancelled
    /\ cancelled' = TRUE
    /\ called' = [name |-> "cancel", at |-> pc]
    /\ UNCHANGED <<analysisVars, aggregateVars, retainersViewVars, providerVars, reply>>

Next ==
    \/ buildEdgeIndexes
    \/ buildRetainers
    \/ propagateDOMState
    \/ calculateFlags
    \/ calculateDistances
    \/ buildPostOrderIndex
    \/ buildDominatorTree
    \/ calculateShallowSizes
    \/ calculateRetainedSizes
    \/ buildDominatedNodes
    \/ calculateObjectNames

Spec == Init /\ [][Next]_vars

\* the same passes over the chains of ChainLength nodes
SpecChain == InitChain /\ [][Next]_vars

\* the same passes over the profiles with the node and edge kinds of the
\* distance filter
SpecDist == InitDist /\ [][Next]_vars

\* the same passes over the multigraphs of the distance search
SpecSeeds == InitSeeds /\ [][Next]_vars

\* the same passes over the profiles with serialized DOM link states
SpecDOM == InitDOM /\ [][Next]_vars

\* the passes and then the aggregate queries over the profiles of the classes
NextAggregates == Next \/ aggregatesWithFilter \/ calculateSnapshotDiff
SpecAggregates == InitClasses /\ [][NextAggregates]_vars

\* the passes and then aggregatesWithFilter over the profiles of strings
NextFilters == Next \/ aggregatesWithFilter
SpecStrings == InitStrings /\ [][NextFilters]_vars

\* the passes and then a provider over all nodes, sorted and paged by the host
NextItems == Next \/ sortAndRewind \/ serializeItemsRange
SpecItems == InitItems /\ [][NextItems]_vars

\* the passes and then the retainers view with nodes ignored and unignored
NextRetainersView ==
    Next \/ ignoreNodeInRetainersView \/ unignoreNodeInRetainersView \/ unignoreAllNodesInRetainersView
SpecRetainersView == InitEphemeron /\ [][NextRetainersView]_vars

\* the retainers view with its retainer edges serialized and sorted
NextRetainerEdges == NextRetainersView \/ serializeRetainerEdge \/ retainerEdgeValueForSorting
\* over the profiles with a table, a key and a value and two more edges,
\* or three when the first of them is a property edge to the key
InitPairs ==
    /\ InitEphemeron
    /\ ArrayLen(nodes) = (MaxNodes + 1) * nodeFieldCount
    /\ \/ ArrayLen(containmentEdges) = 3 * edgeFieldsCount
       \/ /\ ArrayLen(containmentEdges) = 4 * edgeFieldsCount
          /\ containmentEdges[edgeFieldsCount + edgeTypeOffset] = edgePropertyType
          /\ containmentEdges[edgeFieldsCount + edgeToNodeOffset] = 2 * nodeFieldCount
SpecRetainerEdges == InitPairs /\ [][NextRetainerEdges]_vars

\* the passes and then the comparator of the retainers of a node
NextRetainers == Next \/ compareRetainers
SpecRetainers == InitRetainers /\ [][NextRetainers]_vars

\* initialize on the profiles with nodes the depth-first round does not reach
SpecOrphans == InitOrphans /\ [][Next]_vars

\* initialize with the host cancelling at any pass boundary
NextCancel == Next \/ cancel
SpecCancel == InitChain /\ [][NextCancel]_vars

\* initialize on profiles with every kind of edge isEssentialEdge tells apart
SpecEssential == InitEssential /\ [][Next]_vars

\* initialize on profiles of hidden and array nodes with their owners
SpecOwners == InitOwners /\ [][Next]_vars

\* the passes and then aggregatesWithFilter over objects below one another
SpecNested == InitNested /\ [][NextFilters]_vars

\* initialize on the profiles with page objects behind shortcut edges
SpecGate == InitGate /\ [][Next]_vars

\* ======================================================== properties
\* The graph of the snapshot as the profile gives it: the source of edge k is
\* the node whose edge_count range holds k.
RECURSIVE edgesBefore(_)
edgesBefore(o) ==
    IF o = 0 THEN 0 ELSE edgesBefore(o - 1) + serialized[(o - 1) * nodeFieldCount + nodeEdgeCountOffset]

Ordinals == 0 .. nodeCount - 1
EdgeNumbers == 0 .. edgeCount - 1
edgeSource(k) == CHOOSE o \in Ordinals : edgesBefore(o) <= k /\ k < edgesBefore(o + 1)
edgeTarget(k) == containmentEdges[k * edgeFieldsCount + edgeToNodeOffset] \div nodeFieldCount
edgeTypeOf(k) == containmentEdges[k * edgeFieldsCount + edgeTypeOffset]

initialized == pc = "done"
retainersBuilt == pc \notin {"buildEdgeIndexes", "buildRetainers"} /\ error # "Invalid toNodeIndex"
postOrderBuilt == postOrderIndex2NodeOrdinal # <<>>
dominatorsBuilt == dominatorsTree # <<>>

essentialEdges == { k \in EdgeNumbers : isEssentialEdge(edgeSource(k) * nodeFieldCount, k * edgeFieldsCount) }

\* the nodes a set of edges reaches from the root without passing through avoid
RECURSIVE reachFrom(_, _, _)
reachFrom(reached, edges, avoid) ==
    LET more == { edgeTarget(k) : k \in { e \in edges : edgeSource(e) \in reached } } \ (reached \cup avoid)
    IN  IF more = {} THEN reached ELSE reachFrom(reached \cup more, edges, avoid)

reachable(edges, avoid) == IF rootNodeOrdinal \in avoid THEN {} ELSE reachFrom({rootNodeOrdinal}, edges, avoid)

\* d dominates v: every path of essential edges from the root to v passes through d
dominates(d, v) == d # v /\ v \notin reachable(essentialEdges, {d})
immediateDominator(v) ==
    CHOOSE d \in Ordinals : dominates(d, v) /\ \A other \in Ordinals \ {d} : dominates(other, v) => dominates(other, d)

allEssentiallyReachable == reachable(essentialEdges, {}) = Ordinals
noEdgeSkippedByGate ==
    \A k \in essentialEdges :
        edgeSource(k) = rootNodeOrdinal \/ ~pageFlag(edgeTarget(k)) \/ pageFlag(edgeSource(k))

\* C1: when every node is reachable from the root through essential edges and
\* the page-object gate skips no edge, dominatorsTree[v] is the immediate
\* dominator of v in the graph of essential edges and the root dominates itself;
\* a weak edge, or a shortcut edge that does not start at the root, adds nothing.
C1_DominatorsAreImmediate ==
    (dominatorsBuilt /\ allEssentiallyReachable /\ noEdgeSkippedByGate) =>
        /\ dominatorsTree[rootNodeOrdinal] = rootNodeOrdinal
        /\ \A v \in Ordinals \ {rootNodeOrdinal} : dominatorsTree[v] = immediateDominator(v)

\* a root with two children, a weak edge between the children, and the root
\* the dominator of both
C1_Witness ==
    /\ initialized /\ allEssentiallyReachable /\ noEdgeSkippedByGate /\ nodeCount = 3
    /\ \E k \in EdgeNumbers :
          /\ edgeTypeOf(k) = edgeWeakType
          /\ edgeSource(k) # rootNodeOrdinal
          /\ edgeTarget(k) # edgeSource(k)
          /\ dominatorsTree[edgeTarget(k)] = rootNodeOrdinal
          /\ dominatorsTree[edgeSource(k)] = rootNodeOrdinal

selfSize(v) == nodes[v * nodeFieldCount + nodeSelfSizeOffset]
RECURSIVE sumSelfSizes(_)
sumSelfSizes(v) == IF v >= nodeCount THEN 0 ELSE selfSize(v) + sumSelfSizes(v + 1)

\* C2: after initialize the retained size of the root is the sum of all self
\* sizes, taken after the shallow sizes were reassigned, and no retained size
\* is below the self size of its node.
C2_RetainedSizes ==
    initialized =>
        /\ retainedSizes[rootNodeOrdinal] = sumSelfSizes(0)
        /\ \A v \in Ordinals : retainedSizes[v] >= selfSize(v)

retainerSlots(v) == firstRetainerIndex[v] .. firstRetainerIndex[v + 1] - 1

\* C3: after buildRetainers the retainer slots of node v hold exactly the edges
\* whose to_node is v * nodeFieldCount, each once, with the index of the owner of
\* the edge in the same slot of retainingNodes, and the last offset is the edge
\* count.
C3_RetainersAreTheIncomingEdges ==
    retainersBuilt =>
        /\ firstRetainerIndex[nodeCount] = edgeCount
        /\ \A v \in Ordinals :
              /\ \A slot \in retainerSlots(v) :
                    \E k \in EdgeNumbers :
                        /\ retainingEdges[slot] = k * edgeFieldsCount
                        /\ containmentEdges[k * edgeFieldsCount + edgeToNodeOffset] = v * nodeFieldCount
                        /\ retainingNodes[slot] = edgeSource(k) * nodeFieldCount
              /\ \A k \in EdgeNumbers :
                    containmentEdges[k * edgeFieldsCount + edgeToNodeOffset] = v * nodeFieldCount =>
                        Cardinality({ slot \in retainerSlots(v) : retainingEdges[slot] = k * edgeFieldsCount }) = 1

\* a node with two retainers owned by different nodes, and a node with none
C3_Witness ==
    /\ retainersBuilt /\ pc = "propagateDOMState"
    /\ \E v \in Ordinals :
          /\ Cardinality(retainerSlots(v)) = 2
          /\ \E a, b \in retainerSlots(v) : retainingNodes[a] # retainingNodes[b]
    /\ \E v \in Ordinals : retainerSlots(v) = {}

\* C4: postOrderIndex2NodeOrdinal is a permutation of the node ordinals with the
\* root at index nodeCount - 1, and nodeOrdinal2PostOrderIndex is its inverse,
\* also when nodes have only weak or shortcut retainers or are unreachable.
C4_PostOrderIsPermutation ==
    postOrderBuilt =>
        /\ DOMAIN postOrderIndex2NodeOrdinal = Ordinals
        /\ DOMAIN nodeOrdinal2PostOrderIndex = Ordinals
        /\ \A o \in Ordinals : \E i \in Ordinals : postOrderIndex2NodeOrdinal[i] = o
        /\ postOrderIndex2NodeOrdinal[nodeCount - 1] = rootNodeOrdinal
        /\ \A o \in Ordinals :
              /\ nodeOrdinal2PostOrderIndex[o] \in Ordinals
              /\ postOrderIndex2NodeOrdinal[nodeOrdinal2PostOrderIndex[o]] = o

\* one node that only the second round reaches (no retainers but weak ones) and
\* one that only the last round numbers (its only retainer is itself)
C4_Witness ==
    /\ postOrderBuilt /\ nodeCount = 3
    /\ \E v, u \in Ordinals \ {rootNodeOrdinal} :
          /\ v # u
          /\ hasOnlyWeakRetainers(v)
          /\ \E k \in EdgeNumbers : edgeTarget(k) = v /\ edgeTypeOf(k) = edgeWeakType
          /\ \E k \in EdgeNumbers : edgeTarget(k) = u /\ edgeTypeOf(k) = edgePropertyType
          /\ \A k \in EdgeNumbers : edgeTarget(k) = u => edgeSource(k) = u

\* C5: after initialize dominatorsTree[v] of every node v but the root is a node
\* ordinal other than v.
C5_DominatorIsAnotherNode ==
    initialized => \A v \in Ordinals \ {rootNodeOrdinal} : dominatorsTree[v] \in Ordinals \ {v}

RECURSIVE climb(_, _)
climb(v, steps) ==
    IF v = rootNodeOrdinal THEN TRUE
    ELSE IF steps = 0 THEN FALSE
    ELSE climb(dominatorsTree[v], steps - 1)

\* C6: after initialize the chain v, dominatorsTree[v], ... of every node v but
\* the root reaches the root in at most nodeCount steps.
C6_DominatorChainReachesRoot ==
    initialized => \A v \in Ordinals \ {rootNodeOrdinal} : climb(v, nodeCount)

bucket(d) == firstDominatedNodeIndex[d] .. firstDominatedNodeIndex[d + 1] - 1
RECURSIVE sumBuckets(_)
sumBuckets(d) == IF d >= nodeCount THEN 0 ELSE Cardinality(bucket(d)) + sumBuckets(d + 1)

\* C7: after buildDominatedNodes every node index but the root's is in
\* dominatedNodes exactly once, in the bucket of its dominator; the bucket sizes
\* add up to nodeCount - 1 and the last offset is the length of dominatedNodes.
C7_DominatedNodesBuckets ==
    initialized =>
        /\ \A v \in Ordinals \ {rootNodeOrdinal} :
              /\ Cardinality({ slot \in DOMAIN dominatedNodes : dominatedNodes[slot] = v * nodeFieldCount }) = 1
              /\ \E slot \in bucket(dominatorsTree[v]) : dominatedNodes[slot] = v * nodeFieldCount
        /\ sumBuckets(0) = nodeCount - 1
        /\ firstDominatedNodeIndex[nodeCount] = ArrayLen(dominatedNodes)

\* two nodes in one bucket and a third node with a bucket of its own
C7_Witness ==
    /\ initialized /\ nodeCount = 3 /\ rootNodeOrdinal = 0
    /\ dominatorsTree[1] = 0 /\ dominatorsTree[2] = 1
    /\ bucket(0) = {0} /\ bucket(1) = {1}

distancesCalculated ==
    pc \notin {"buildEdgeIndexes", "buildRetainers", "propagateDOMState", "calculateFlags", "calculateDistances"}
    /\ error \notin {"Invalid toNodeIndex", "BFS failed"}

nonWeakEdges == { k \in EdgeNumbers : edgeTypeOf(k) # edgeWeakType }

\* C8 as stated: the distance of v is NO_DISTANCE exactly when no path of
\* non-weak edges leads from the root to v.
C8_NoDistanceIffNoNonWeakPath ==
    distancesCalculated =>
        \A v \in Ordinals : nodeDistances[v] = noDistance <=> v \notin reachable(nonWeakEdges, {})

\* the user roots the first phase starts from: the targets of the edges of the
\* root, of whatever type
userRootSeeds ==
    { edgeTarget(k) : k \in { e \in EdgeNumbers : /\ edgeSource(e) = rootNodeOrdinal
                                                   /\ isUserRoot(edgeTarget(e) * nodeFieldCount) } }

\* the edges the distance filter can reject: sloppy_function_map of a hidden
\* NativeContext, the descriptor slots of a (map descriptors) array, and the
\* internal edges named as a WeakMap pair
filterCanReject(k) ==
    LET nodeIndex == edgeSource(k) * nodeFieldCount
        index == parseInt(edgeName(k * edgeFieldsCount))
    IN  \/ /\ serialized[nodeIndex + nodeTypeOffset] = nodeHiddenType
           /\ rawName(nodeIndex) = "system / NativeContext"
           /\ edgeName(k * edgeFieldsCount) = "sloppy_function_map"
        \/ /\ serialized[nodeIndex + nodeTypeOffset] = nodeArrayType
           /\ rawName(nodeIndex) = "(map descriptors)"
           /\ ~index.isNaN /\ index.value >= 2 /\ index.value % 3 = 1
        \/ /\ edgeTypeOf(k) = edgeInternalType
           /\ tryParseWeakMapEdgeName(containmentEdges[k * edgeFieldsCount + edgeNameOffset]).match

\* C8, amended: a node with a distance is the root, a user root at the end of
\* an edge of the root, or reached from one of these by non-weak edges; and a
\* node that a path of non-weak edges the filter cannot reject reaches from the
\* root has a distance.
C8_NoDistanceBounds ==
    distancesCalculated =>
        \A v \in Ordinals :
            /\ nodeDistances[v] # noDistance =>
                   v \in reachFrom({rootNodeOrdinal} \cup userRootSeeds, nonWeakEdges, {})
            /\ v \in reachable({ k \in nonWeakEdges : ~filterCanReject(k) }, {}) =>
                   nodeDistances[v] # noDistance

\* a user root that only a weak edge of the root reaches has distance 1, and
\* its child behind a rejected non-weak edge has none
C8_Witness ==
    /\ initialized /\ nodeCount = 3
    /\ \E a, b \in Ordinals \ {rootNodeOrdinal} :
          /\ a # b
          /\ nodeDistances[a] = 1 /\ a \notin reachable(nonWeakEdges, {})
          /\ nodeDistances[b] = noDistance
          /\ \E k \in nonWeakEdges : edgeSource(k) = a /\ edgeTarget(k) = b /\ filterCanReject(k)

\* the chain snapshot S1: the root first, a property edge to A, a property edge
\* from A to B and nothing else
chainS1 ==
    /\ nodeCount = 3 /\ edgeCount = 2 /\ rootNodeOrdinal = 0
    /\ edgeSource(0) = 0 /\ edgeTarget(0) = 1 /\ edgeTypeOf(0) = edgePropertyType
    /\ edgeSource(1) = 1 /\ edgeTarget(1) = 2 /\ edgeTypeOf(1) = edgePropertyType

\* C9 as stated: in S1 the distances are 0 for the root, 1 for A and 2 for B.
C9_ChainDistances ==
    (distancesCalculated /\ chainS1) =>
        nodeDistances[0] = 0 /\ nodeDistances[1] = 1 /\ nodeDistances[2] = 2

\* C9, amended: in S1, when the filter cannot reject the edge from A to B, A
\* has distance 1 and B has 2; the root has baseSystemDistance when A is a user
\* root (not synthetic, or the (Document DOM trees) node) and 0 when it is not.
C9_ChainDistancesByUserRoot ==
    (distancesCalculated /\ chainS1 /\ ~filterCanReject(1)) =>
        /\ nodeDistances[1] = 1 /\ nodeDistances[2] = 2
        /\ nodeDistances[0] = IF serialized[nodeFieldCount + nodeTypeOffset] # nodeSyntheticType
                                 \/ rawName(nodeFieldCount) = "(Document DOM trees)"
                              THEN baseSystemDistance ELSE 0

\* S1 with a plain object for A, the root at the system distance
C9_Witness ==
    /\ initialized /\ chainS1 /\ ~filterCanReject(1)
    /\ serialized[nodeFieldCount + nodeTypeOffset] = nodeObjectType
    /\ nodeDistances[0] = baseSystemDistance /\ nodeDistances[2] = 2

domStatePropagated == pc \notin {"buildEdgeIndexes", "buildRetainers", "propagateDOMState"} /\ error # "Invalid toNodeIndex"
serializedState(v) == serialized[v * nodeFieldCount + nodeDetachednessAndClassIndexOffset] % 4
propagatedState(v) == nodes[v * nodeFieldCount + nodeDetachednessAndClassIndexOffset] % 4
isNativeNode(v) == serialized[v * nodeFieldCount + nodeTypeOffset] = nodeNativeType
domEdges == { k \in EdgeNumbers : edgeTypeOf(k) \notin {edgeHiddenType, edgeInvisibleType, edgeWeakType} }
serializedAs(state) == { v \in Ordinals : serializedState(v) = state }

\* the nodes reached from the start set by DOM edges, not counting the start
reachedBeyond(start, edges) ==
    LET first == { edgeTarget(k) : k \in { e \in edges : edgeSource(e) \in start } }
    IN  IF first = {} THEN {} ELSE reachFrom(first, edges, {})

unknownNativeEdges ==
    { k \in domEdges : isNativeNode(edgeTarget(k)) /\ serializedState(edgeTarget(k)) = 0 }
belowDetached ==
    reachedBeyond({ v \in serializedAs(2) : isNativeNode(v) }, unknownNativeEdges)

nodeId(nodeIndex) == nodes[nodeIndex + nodeIdOffset]

\* the entries of seq at the positions in keep, in their order
RECURSIVE entriesAt(_, _, _)
entriesAt(seq, keep, k) ==
    IF k > Len(seq) THEN <<>>
    ELSE (IF k \in keep THEN <<seq[k]>> ELSE <<>>) \o entriesAt(seq, keep, k + 1)

RECURSIVE sumOf(_)
sumOf(seq) == IF Len(seq) = 0 THEN 0 ELSE Head(seq) + sumOf(Tail(seq))

\* the class names of a base snapshot and of the aggregates of this one
diffedClassNames(baseSnapshotId) == DOMAIN BaseSnapshots[baseSnapshotId] \cup DOMAIN aggregates["allObjects"]
baseAggregateOf(baseSnapshotId, n) ==
    IF n \in DOMAIN BaseSnapshots[baseSnapshotId] THEN BaseSnapshots[baseSnapshotId][n] ELSE emptyBaseAggregate
currentIndexesOf(n) == IF n \in DOMAIN aggregates["allObjects"] THEN aggregates["allObjects"][n].idxs ELSE <<>>
\* positions of the base aggregate whose id this snapshot does not have in the
\* class, and positions of this snapshot's list whose id the base does not have
gone(A, B) == {k \in 1 .. Len(A.ids) : \A j \in 1 .. Len(B) : nodeId(B[j]) # A.ids[k]}
arrived(A, B) == {j \in 1 .. Len(B) : \A k \in 1 .. Len(A.ids) : A.ids[k] # nodeId(B[j])}

diffIsSetDifference(d, A, B) ==
    /\ d.deletedIndexes = entriesAt(A.indexes, gone(A, B), 1)
    /\ d.addedIndexes = entriesAt(B, arrived(A, B), 1)
    /\ d.removedCount = Cardinality(gone(A, B))
    /\ d.addedCount = Cardinality(arrived(A, B))
    /\ d.removedSize = sumOf(entriesAt(A.selfSizes, gone(A, B), 1))
    /\ d.addedSize = sumOf([j \in 1 .. Len(d.addedIndexes) |-> selfSize(d.addedIndexes[j] \div nodeFieldCount)])
    /\ d.countDelta = d.addedCount - d.removedCount
    /\ d.sizeDelta = d.addedSize - d.removedSize
    /\ ({A.ids[k] : k \in 1 .. Len(A.ids)} \ {A.ids[k] : k \in gone(A, B)})
           \cup {nodeId(B[j]) : j \in arrived(A, B)}
       = {nodeId(B[j]) : j \in 1 .. Len(B)}

\* C11: every diff calculateSnapshotDiff has stored holds, for each class of the
\* base snapshot or of this one, as deleted exactly the entries of the base
\* aggregate whose id is not in the class's id-sorted node list of this
\* snapshot and as added exactly the nodes of that list whose id is not in the
\* base aggregate, with the sizes and deltas that follow; applying it to the
\* base ids gives the ids of this snapshot; and a class has no diff exactly
\* when nothing was added or removed.
C11_DiffIsSetDifference ==
    \A baseSnapshotId \in DOMAIN snapshotDiffs :
        \A n \in diffedClassNames(baseSnapshotId) :
            IF gone(baseAggregateOf(baseSnapshotId, n), currentIndexesOf(n)) = {}
               /\ arrived(baseAggregateOf(baseSnapshotId, n), currentIndexesOf(n)) = {}
            THEN n \notin DOMAIN snapshotDiffs[baseSnapshotId]
            ELSE /\ n \in DOMAIN snapshotDiffs[baseSnapshotId]
                 /\ diffIsSetDifference(snapshotDiffs[baseSnapshotId][n],
                                        baseAggregateOf(baseSnapshotId, n), currentIndexesOf(n))

\* a diff with a deleted and an added entry and an entry that stayed, over a
\* class whose nodes are not in the order of their ids
C11_Witness ==
    \E baseSnapshotId \in DOMAIN snapshotDiffs : \E n \in DOMAIN snapshotDiffs[baseSnapshotId] :
        /\ snapshotDiffs[baseSnapshotId][n].removedCount > 0
        /\ snapshotDiffs[baseSnapshotId][n].addedCount > 0
        /\ snapshotDiffs[baseSnapshotId][n].removedCount < Len(baseAggregateOf(baseSnapshotId, n).ids)
        /\ \E j \in 1 .. Len(currentIndexesOf(n)) - 1 : currentIndexesOf(n)[j] > currentIndexesOf(n)[j + 1]

\* ------------------------------------------------------------------ C12
duplicatedStringsKey == "NamedFilter: " \o StrDuplicatedStrings
isStringNode(nodeIndex) == rawType(nodeIndex) \in {nodeStringType, nodeConsStringType}
NodeIndexes == {o * nodeFieldCount : o \in Ordinals}
\* the nodes in the aggregates cached under a key
aggregatedUnder(key) ==
    UNION {{aggregates[key][n].idxs[k] : k \in 1 .. Len(aggregates[key][n].idxs)} : n \in DOMAIN aggregates[key]}

\* C12: the 'duplicatedStrings' filter accepts a node exactly when it is of
\* string or concatenated string type, is not a flat cons-string, and another
\* such node of the snapshot has the same name; every node but the root takes
\* space here, so the aggregates under the filter hold exactly those nodes.
C12_DuplicatedStrings ==
    duplicatedStringsKey \in DOMAIN aggregates =>
        aggregatedUnder(duplicatedStringsKey) =
            {v \in NodeIndexes :
                /\ isStringNode(v) /\ ~isFlatConsString(v)
                /\ \E u \in NodeIndexes \ {v} :
                       isStringNode(u) /\ ~isFlatConsString(u) /\ nodeName(u) = nodeName(v)}

\* the filter has accepted a concatenated string and the sequential string
\* that its two parts spell
C12_Witness ==
    /\ duplicatedStringsKey \in DOMAIN aggregates
    /\ \E v, u \in NodeIndexes :
          /\ rawType(v) = nodeConsStringType /\ rawType(u) = nodeStringType
          /\ nodeName(v) = "aa" /\ rawName(v) # "aa" /\ nodeName(u) = "aa"
          /\ {v, u} \subseteq aggregatedUnder(duplicatedStringsKey)

\* ------------------------------------------------------------------ C13
\* the fully sorted list: the one arrangement of the provider's items in
\* which every item comes before the items the comparator puts behind it
fullySorted ==
    CHOOSE q \in {[k \in 1 .. nodeCount |-> providedIndexes[p[k]]] : p \in Permutations(1 .. nodeCount)} :
        \A j, k \in 1 .. nodeCount : j < k => sortByComparator(currentComparator[1], q[j], q[k]) < 0

sortedAndRewound == currentComparator # undefined /\ iterationOrder # undefined
itemCount == Len(iterationOrder[1])

\* the order is a permutation of the items, and the recorded prefix and
\* suffix hold the items of the fully sorted list
orderKeepsSortedEnds ==
    /\ {iterationOrder[1][k] : k \in 1 .. itemCount} = {providedIndexes[k] : k \in 1 .. nodeCount}
    /\ itemCount = nodeCount
    /\ \A k \in 1 .. itemCount :
           k <= sortedPrefixLength \/ k > itemCount - sortedSuffixLength => iterationOrder[1][k] = fullySorted[k]

lastRangeWithin(maxBegin) ==
    /\ called # <<>> /\ called.name = "serializeItemsRange"
    /\ called.begin <= called.end /\ called.begin <= maxBegin

lastRangeReturnedSorted ==
    /\ reply.threw = ""
    /\ reply.value = SubSeq(fullySorted, called.begin + 1,
                            IF called.end > itemCount THEN itemCount ELSE called.end)

\* C13 as stated: after sortAndRewind, every serializeItemsRange(begin, end)
\* with 0 <= begin <= end returns the items at [begin, min(end, length)) of the
\* fully sorted list, the order stays a permutation of the items, and the
\* first sortedPrefixLength and last sortedSuffixLength positions hold their
\* final items.
C13_RangesOfTheSortedList ==
    sortedAndRewound =>
        /\ orderKeepsSortedEnds
        /\ lastRangeWithin(MaxPosition) => lastRangeReturnedSorted

\* C13, amended: the same for every call with 0 <= begin <= end and begin <=
\* length; a call with begin > length throws and leaves the order and the
\* recorded lengths as they were.
C13_RangesWithinTheList ==
    sortedAndRewound =>
        /\ orderKeepsSortedEnds
        /\ lastRangeWithin(itemCount) => lastRangeReturnedSorted
        /\ lastRangeWithin(MaxPosition) /\ called.begin > itemCount => reply.threw # ""

\* a window in the middle of the list was returned sorted while neither end
\* of the order was known to be sorted, and the order is not yet fully sorted
C13_Witness ==
    /\ sortedAndRewound /\ lastRangeWithin(itemCount) /\ lastRangeReturnedSorted
    /\ itemCount = MaxItems /\ called.begin = 1 /\ called.end = 3
    /\ sortedPrefixLength = 0 /\ sortedSuffixLength = 0
    /\ iterationOrder[1] # fullySorted
    /\ reply.value # SubSeq(providedIndexes, 2, 3)

\* ------------------------------------------------------------------ C14
\* C14: whatever the calls before, the retainers-view distances and the
\* ignored edges are those a computation from the current set of ignored
\* nodes gives; with no node ignored, no edge is ignored and
\* getDistanceForRetainersView is the main-view distance of every node that
\* has one.
C14_RetainersViewFollowsIgnoredSet ==
    initialized =>
        IF ignoredNodesInRetainersView = {}
        THEN /\ ignoredEdgesInRetainersView = {}
             /\ \A v \in Ordinals :
                    nodeDistances[v] # noDistance =>
                        getDistanceForRetainersView(v * nodeFieldCount) = nodeDistances[v]
        ELSE /\ nodeDistancesForRetainersView = <<calculateDistancesOf(TRUE, ignoredNodesInRetainersView).distances>>
             /\ ignoredEdgesInRetainersView =
                    updateIgnoredEdgesInRetainersView(
                        <<calculateDistancesOf(TRUE, ignoredNodesInRetainersView).distances>>)

\* after a node was unignored a key of a WeakMap is still ignored: the value
\* has no distance and the pair edge of the table, which is reachable, is
\* ignored with the pair edge of the key
C14_Witness ==
    /\ initialized /\ called # <<>> /\ called.name = "unignoreNodeInRetainersView"
    /\ ignoredNodesInRetainersView # {}
    /\ \E e1, e2 \in ignoredEdgesInRetainersView :
          /\ edgeSource(e1 \div edgeFieldsCount) # edgeSource(e2 \div edgeFieldsCount)
          /\ edgeSource(e1 \div edgeFieldsCount) * nodeFieldCount \in ignoredNodesInRetainersView
          /\ nodeDistancesForRetainersView[1][edgeSource(e2 \div edgeFieldsCount)] # noDistance
          /\ nodeDistancesForRetainersView[1][edgeTarget(e1 \div edgeFieldsCount)] = noDistance
          /\ nodeDistances[edgeTarget(e1 \div edgeFieldsCount)] # noDistance

\* ------------------------------------------------------------------ C15
\* the filter of the last aggregatesWithFilter call, which answered
lastFilter == createFilter(called.nodeFilter)
aggregatesAnswered ==
    /\ initialized /\ called # <<>> /\ called.name = "aggregatesWithFilter"
    /\ reply.threw = ""
\* the nodes that take space and pass the filter, all and those of a class
survivors == {v \in NodeIndexes : nodes[v + nodeSelfSizeOffset] > 0 /\ accepts(lastFilter, v)}
survivorsOf(c) == {v \in survivors : classIndex(v) = c}
\* the self sizes of a set of nodes, summed
RECURSIVE selfSizeOfAll(_)
selfSizeOfAll(S) ==
    IF S = {} THEN 0
    ELSE LET v == CHOOSE x \in S : TRUE IN nodes[v + nodeSelfSizeOffset] + selfSizeOfAll(S \ {v})
\* the record of the claim for a set of nodes of one class
describes(record, S) ==
    /\ record.count = Cardinality(S)
    /\ record.self = selfSizeOfAll(S)
    /\ \E v \in S : record.distance = nodeDistances[v \div nodeFieldCount]
    /\ \A v \in S : record.distance <= nodeDistances[v \div nodeFieldCount]
    /\ Len(record.idxs) = Cardinality(S)
    /\ {record.idxs[k] : k \in 1 .. Len(record.idxs)} = S
    /\ (record.name # undefined) <=> (record.type \in {"object", "native"})

\* C15: the aggregates returned for a filter hold one record for each class
\* with a node that takes space and passes the filter, with the count, the
\* self size, the least distance and the node indexes of exactly those nodes;
\* no other node is in a record, and name is set only for object and native
\* classes.
C15_AggregatesPerClass ==
    aggregatesAnswered =>
        /\ \A c \in {classIndex(v) : v \in survivors} :
               \E n \in DOMAIN reply.value : describes(reply.value[n], survivorsOf(c))
        /\ \A n \in DOMAIN reply.value :
               \E c \in {classIndex(v) : v \in survivors} : describes(reply.value[n], survivorsOf(c))

\* no two classes with a surviving node share their name
classNamesDistinct ==
    \A u, v \in survivors : className(u) = className(v) => classIndex(u) = classIndex(v)
\* the records are those of the claim whenever no two classes share a name
AggregatesPerClassOfDistinctNames ==
    (aggregatesAnswered /\ classNamesDistinct) =>
        /\ \A c \in {classIndex(v) : v \in survivors} :
               \E n \in DOMAIN reply.value : describes(reply.value[n], survivorsOf(c))
        /\ \A n \in DOMAIN reply.value :
               \E c \in {classIndex(v) : v \in survivors} : describes(reply.value[n], survivorsOf(c))

\* ------------------------------------------------------------------ C16
\* the passes that read the flag, by the claim
cancellablePasses == {"calculateDistances", "buildPostOrderIndex", "buildDominatorTree"}
\* C16: once the host has set the cancellation flag before the distance,
\* post-order or dominator pass, initialize goes no further than that pass:
\* it stops there with a cancellation signal and never completes.
C16_CancellationStopsInitialize ==
    (cancelled /\ called.at \in cancellablePasses) => pc \in {called.at, "cancelled"}

\* ------------------------------------------------------------------ C17
\* the names createNamedFilter has a case for
KnownFilterNames == {"objectsRetainedByDetachedDomNodes", "objectsRetainedByConsole", StrDuplicatedStrings}
unknownFilterName(nodeFilter) ==
    nodeFilter.filterName # undefined /\ nodeFilter.filterName[1] \notin KnownFilterNames
\* createFilter looks at filterName only when no allocation node and no id
\* range is given
byNameOnly(nodeFilter) ==
    /\ nodeFilter.allocationNodeId = undefined
    /\ ~(nodeFilter.minNodeId # undefined /\ nodeFilter.maxNodeId # undefined)
namedFilterKey(nodeFilter) == "NamedFilter: " \o nodeFilter.filterName[1]
\* this step is a call of aggregatesWithFilter with the given kind of filter
stepWithFilter(kind(_)) ==
    /\ initialized
    /\ called' # <<>> /\ called'.name = "aggregatesWithFilter"
    /\ kind(called'.nodeFilter)
\* the call failed with 'Invalid filter name' and changed nothing
failedUnchanged ==
    /\ reply'.threw = "Invalid filter name"
    /\ UNCHANGED <<analysisVars, aggregateVars, retainersViewVars, providerVars>>
    /\ namedFilterKey(called'.nodeFilter) \notin DOMAIN aggregates'
    /\ namedFilterKey(called'.nodeFilter) \notin aggregatesSortedFlags'

\* C17 as claimed: every call of aggregatesWithFilter whose node filter has a
\* filterName the engine does not know fails with 'Invalid filter name' and
\* changes neither the cached aggregates, the sorted flags nor a graph array.
C17_UnknownFilterNameFails ==
    [][stepWithFilter(unknownFilterName) => failedUnchanged]_vars

\* C17: the same for the node filters createFilter reads the name of, those
\* without an allocation node and without an id range.
unknownNameOnly(nodeFilter) == unknownFilterName(nodeFilter) /\ byNameOnly(nodeFilter)
C17_UnknownNameOnlyFilterFails ==
    [][stepWithFilter(unknownNameOnly) => failedUnchanged]_vars

\* the call with the unknown name has failed while aggregates of an earlier
\* call are cached and still there
C17_Witness ==
    /\ initialized /\ called # <<>> /\ called.name = "aggregatesWithFilter"
    /\ unknownNameOnly(called.nodeFilter)
    /\ reply.threw = "Invalid filter name"
    /\ "allObjects" \in DOMAIN aggregates
    /\ "NodeIdRange: 3..7" \in DOMAIN aggregates

\* ------------------------------------------------------------------ C18
\* the edges of the snapshot as pairs of source node index and edge index
sourcedEdges == {<<edgeSource(k) * nodeFieldCount, k * edgeFieldsCount>> : k \in EdgeNumbers}
edgeTypeAt(edgeIndex) == containmentEdges[edgeIndex + edgeTypeOffset]
weakMapMatch(edgeIndex) == tryParseWeakMapEdgeName(containmentEdges[edgeIndex + edgeNameOffset])
isWeakMapPairEdge(edgeIndex) == edgeTypeAt(edgeIndex) = edgeInternalType /\ weakMapMatch(edgeIndex).match
fromTheTable(nodeIndex, edgeIndex) ==
    nodes[nodeIndex + nodeIdOffset] = parseInt(weakMapMatch(edgeIndex).tableId).value

\* C18: isEssentialEdge is false for every weak edge, true for a shortcut
\* edge exactly when its source is the root, false for an internal edge named
\* as a WeakMap pair exactly when the id of its source is the table id of
\* the name, and true for every other edge.
C18_EssentialEdges ==
    \A p \in sourcedEdges :
        isEssentialEdge(p[1], p[2]) =
            CASE edgeTypeAt(p[2]) = edgeWeakType -> FALSE
              [] edgeTypeAt(p[2]) = edgeShortcutType -> p[1] = rootNodeIndexInternal
              [] isWeakMapPairEdge(p[2]) -> ~fromTheTable(p[1], p[2])
              [] OTHER -> TRUE

\* a value with the pair edge of the table, skipped, and the pair edge of
\* the key, kept, after the post-order and dominator passes have used them
C18_Witness ==
    /\ initialized
    /\ \E p, q \in sourcedEdges :
          /\ isWeakMapPairEdge(p[2]) /\ isWeakMapPairEdge(q[2])
          /\ fromTheTable(p[1], p[2]) /\ ~fromTheTable(q[1], q[2])
          /\ containmentEdges[p[2] + edgeToNodeOffset] = containmentEdges[q[2] + edgeToNodeOffset]
          /\ ~isEssentialEdge(p[1], p[2]) /\ isEssentialEdge(q[1], q[2])

\* ------------------------------------------------------------------ C19
\* the direct children of the root that are user roots
userRootChildren ==
    {edgeTarget(k) : k \in {e \in EdgeNumbers : edgeSource(e) = rootNodeOrdinal
                                                 /\ isUserRoot(edgeTarget(e) * nodeFieldCount)}}
\* the nodes the first phase gives a distance: the user roots and what the
\* search reaches from them
reachedInFirstPhase ==
    LET q0 == [distances |-> [i \in 0 .. nodeCount - 1 |-> noDistance],
               nodesToVisit |-> ZeroArray(nodeCount), nodesToVisitLength |-> 0, pending |-> {}]
        reached(first) == {v \in Ordinals : first.q.distances[v] # noDistance}
    IN  reached(bfs(seedUserRoots(q0, firstEdgeIndexes[rootNodeOrdinal]), FALSE, {}))
\* the nodes that get their distance in the second phase, from the root
reachedInSecondPhase ==
    {v \in Ordinals \ (reachedInFirstPhase \cup {rootNodeOrdinal}) : nodeDistances[v] # noDistance}

\* C19: every direct child of the root that is a user root has distance 1;
\* the root has baseSystemDistance when there is such a child and 0 when
\* there is none; every node reached in the second phase only has a distance
\* above the root's, and so above that of every node reached from a user root.
C19_TwoPhaseDistances ==
    distancesCalculated =>
        /\ \A c \in userRootChildren : nodeDistances[c] = 1
        /\ nodeDistances[rootNodeOrdinal] = IF userRootChildren # {} THEN baseSystemDistance ELSE 0
        /\ \A v \in reachedInSecondPhase :
              /\ nodeDistances[v] > nodeDistances[rootNodeOrdinal]
              /\ \A u \in reachedInFirstPhase \ {rootNodeOrdinal} : nodeDistances[u] < nodeDistances[v]

\* a user root at distance 1, the root at the system distance and a node
\* that only the root leads to one step beyond it
C19_Witness ==
    /\ initialized
    /\ userRootChildren # {} /\ reachedInSecondPhase # {}
    /\ nodeDistances[rootNodeOrdinal] = baseSystemDistance
    /\ \E u \in userRootChildren, v \in reachedInSecondPhase :
          nodeDistances[u] = 1 /\ nodeDistances[v] = baseSystemDistance + 1

\* ------------------------------------------------------------------ C20
shallowSizesCalculated ==
    pc \in {"calculateRetainedSizes", "buildDominatedNodes", "calculateObjectNames", "done"}
selfSizeBefore(v) == serialized[v * nodeFieldCount + nodeSelfSizeOffset]
selfSizeAfter(v) == nodes[v * nodeFieldCount + nodeSelfSizeOffset]
hiddenOrArray == Ordinals \ selfOwned
\* the hidden and array nodes o reaches over non-weak edges through hidden
\* and array nodes only
ownedFrom(o) ==
    LET direct == {edgeTarget(k) : k \in {e \in nonWeakEdges : edgeSource(e) = o}} \cap hiddenOrArray
        onward == {e \in nonWeakEdges : edgeSource(e) \in hiddenOrArray /\ edgeTarget(e) \in hiddenOrArray}
    IN  IF direct = {} THEN {} ELSE reachFrom(direct, onward, {})
possibleOwners(h) == {o \in selfOwned : h \in ownedFrom(o)}
\* h gives its self size to o
movesTo(h, o) ==
    /\ h \in hiddenOrArray
    /\ possibleOwners(h) = {o}
    /\ ~isSynthetic(o * nodeFieldCount) /\ ~isRoot(o * nodeFieldCount)
RECURSIVE sizeBeforeOfAll(_)
sizeBeforeOfAll(S) ==
    IF S = {} THEN 0 ELSE LET v == CHOOSE x \in S : TRUE IN selfSizeBefore(v) + sizeBeforeOfAll(S \ {v})
RECURSIVE sizeAfterOfAll(_)
sizeAfterOfAll(S) ==
    IF S = {} THEN 0 ELSE LET v == CHOOSE x \in S : TRUE IN selfSizeAfter(v) + sizeAfterOfAll(S \ {v})
\* the owners the second loop can end with when the worklist is taken in any order
RECURSIVE ownersInAnyOrder(_)
ownersInAnyOrder(w) ==
    IF w.worklist = <<>> THEN {w.owners}
    ELSE UNION {ownersInAnyOrder(
                    ownEdges([w EXCEPT !.worklist = SubSeq(w.worklist, 1, i - 1)
                                                        \o SubSeq(w.worklist, i + 1, Len(w.worklist))],
                             w.owners[w.worklist[i]],
                             firstEdgeIndexes[w.worklist[i]], firstEdgeIndexes[w.worklist[i] + 1])) :
                i \in 1 .. Len(w.worklist)}
selfSizesOf(ns) == [v \in Ordinals |-> ns[v * nodeFieldCount + nodeSelfSizeOffset]]

\* C20: with a user root below the root, a hidden or array node h ends with
\* self size 0 and its size added to o exactly when o is the one node, not
\* hidden and not an array, that reaches h over non-weak edges through hidden
\* and array nodes, and o is neither synthetic nor the root; no other size
\* changes, the sum of the self sizes is kept, and every order of the
\* worklist gives these sizes. Without a user root below the root no size
\* changes.
C20_ShallowSizesMoveToTheOnlyOwner ==
    shallowSizesCalculated =>
        IF hasUserRoots
        THEN /\ \A v \in Ordinals :
                    selfSizeAfter(v) =
                        IF \E o \in Ordinals : movesTo(v, o) THEN 0
                        ELSE selfSizeBefore(v) + sizeBeforeOfAll({h \in Ordinals : movesTo(h, v)})
             /\ sizeAfterOfAll(Ordinals) = sizeBeforeOfAll(Ordinals)
             /\ pc = "calculateRetainedSizes" =>
                    \A owners \in ownersInAnyOrder(
                                      [owners |-> [i \in Ordinals |-> IF i \in selfOwned THEN i ELSE kUnvisited],
                                       worklist |-> ascending(selfOwned, 0)]) :
                        selfSizesOf(transferSizes(serialized, owners, 0)) = selfSizesOf(nodes)
        ELSE \A v \in Ordinals : selfSizeAfter(v) = selfSizeBefore(v)

\* a hidden node below another hidden node, both moved to the plain object
\* that alone reaches them, and a hidden node with two owners that keeps
\* its size
C20_Witness ==
    /\ initialized /\ hasUserRoots
    /\ \E o \in selfOwned : \E h1, h2 \in hiddenOrArray :
          /\ h1 # h2 /\ movesTo(h1, o) /\ movesTo(h2, o)
          /\ \E k \in nonWeakEdges : edgeSource(k) = h1 /\ edgeTarget(k) = h2
          /\ selfSizeAfter(h1) = 0 /\ selfSizeAfter(h2) = 0
          /\ selfSizeAfter(o) = selfSizeBefore(o) + selfSizeBefore(h1) + selfSizeBefore(h2)
C20_WitnessTwoOwners ==
    /\ initialized /\ hasUserRoots
    /\ \E h \in hiddenOrArray : Cardinality(possibleOwners(h)) = 2 /\ selfSizeAfter(h) = selfSizeBefore(h)
                                /\ selfSizeBefore(h) > 0

\* ------------------------------------------------------------------ C21
nameIndexBefore(v) == serialized[v * nodeFieldCount + nodeNameOffset]
nameIndexAfter(v) == nodes[v * nodeFieldCount + nodeNameOffset]
detachedNatives == {v \in Ordinals : isNativeNode(v) /\ propagatedState(v) = DOMLinkState.Detached}
\* the detached native nodes carry 'Detached ' and their serialized name, put
\* in front once, under one string index for one serialized name index
detachedAreRenamedOnce ==
    /\ \A v \in detachedNatives :
          /\ strings[nameIndexAfter(v)] = StrDetachedPrefix \o strings[nameIndexBefore(v)]
          /\ strings[nameIndexAfter(v)] # StrDetachedPrefix \o StrDetachedPrefix \o strings[nameIndexBefore(v)]
          /\ nameIndexAfter(v) # nameIndexBefore(v)
    /\ \A u, v \in detachedNatives :
          nameIndexBefore(u) = nameIndexBefore(v) => nameIndexAfter(u) = nameIndexAfter(v)
\* nodes that are not native keep name and state, and a native node without a
\* serialized state that only such nodes lead to keeps none
nonNativeAreLeftAlone ==
    /\ \A v \in Ordinals \ {u \in Ordinals : isNativeNode(u)} :
          nameIndexAfter(v) = nameIndexBefore(v) /\ propagatedState(v) = serializedState(v)
    /\ \A v \in Ordinals :
          (/\ isNativeNode(v) /\ serializedState(v) = DOMLinkState.Unknown
           /\ \A k \in domEdges : edgeTarget(k) = v => ~isNativeNode(edgeSource(k)))
              => propagatedState(v) = DOMLinkState.Unknown

\* C21 as claimed: after propagateDOMState every native node that ends
\* Detached has 'Detached ' put once in front of its name, nodes of one
\* serialized name index share the new index, no other node has its name or
\* its state changed, and nothing is propagated through nodes that are not native.
C21_OnlyDetachedNativesChange ==
    domStatePropagated =>
        /\ detachedAreRenamedOnce
        /\ \A v \in Ordinals \ detachedNatives :
              nameIndexAfter(v) = nameIndexBefore(v) /\ propagatedState(v) = serializedState(v)
        /\ nonNativeAreLeftAlone

\* C21: the same, with the native nodes that become Attached as the other
\* nodes whose state changes.
C21_OnlyNativesChange ==
    domStatePropagated =>
        /\ detachedAreRenamedOnce
        /\ \A v \in Ordinals \ detachedNatives :
              /\ nameIndexAfter(v) = nameIndexBefore(v)
              /\ \/ propagatedState(v) = serializedState(v)
                 \/ isNativeNode(v) /\ propagatedState(v) = DOMLinkState.Attached
        /\ nonNativeAreLeftAlone

\* two native nodes of one name end Detached, one of them by propagation,
\* under one new name, while a plain object between native nodes is unchanged
C21_Witness ==
    /\ initialized
    /\ \E u, v \in detachedNatives :
          /\ u # v /\ serializedState(v) = DOMLinkState.Unknown
          /\ nameIndexAfter(u) = nameIndexAfter(v)
          /\ strings[nameIndexAfter(v)] = "Detached div"
    /\ \E w \in Ordinals : ~isNativeNode(w) /\ serializedState(w) = DOMLinkState.Attached
                           /\ \E k \in domEdges : edgeSource(k) = w

\* ------------------------------------------------------------------ C22
\* the nodes other than the root that no essential edge leads to
orphans == {v \in Ordinals \ {rootNodeOrdinal} : \A k \in essentialEdges : edgeTarget(k) # v}

\* C22: after buildDominatorTree every orphan, a node other than the root
\* without an essential retainer, has the root as its dominator, with the
\* root at the first or at the last ordinal.
C22_OrphansBelowTheRoot ==
    initialized => \A v \in orphans : dominatorsTree[v] = rootNodeOrdinal

\* the same with the root at ordinal 0 only
OrphansBelowTheFirstRoot ==
    (initialized /\ rootNodeOrdinal = 0) => \A v \in orphans : dominatorsTree[v] = rootNodeOrdinal

\* ------------------------------------------------------------------ C23
\* the essential edges u -> v that the page-object gate turns away: u is not
\* the root, v is a page object and u is not
gatedEdges ==
    { k \in essentialEdges :
        edgeSource(k) # rootNodeOrdinal /\ pageFlag(edgeTarget(k)) /\ ~pageFlag(edgeSource(k)) }
ungatedEdges == essentialEdges \ gatedEdges

\* d dominates v in the graph of the essential edges that pass the gate
dominatesUngated(d, v) == d # v /\ v \notin reachable(ungatedEdges, {d})
immediateDominatorUngated(v) ==
    CHOOSE d \in Ordinals :
        dominatesUngated(d, v) /\ \A other \in Ordinals \ {d} : dominatesUngated(other, v) => dominatesUngated(other, d)

\* C23: the post-order indexer and the dominator builder ignore every
\* essential edge from a node that is not the root and not a page object to a
\* page object: when the other essential edges reach every node, the
\* dominators are the immediate dominators of the graph without those edges,
\* and the dominator of a page object is the root or a page object, with the
\* root at the first or at the last ordinal.
C23_GatedEdgesAreIgnored ==
    initialized =>
        /\ reachable(ungatedEdges, {}) = Ordinals =>
              \A v \in Ordinals \ {rootNodeOrdinal} : dominatorsTree[v] = immediateDominatorUngated(v)
        /\ \A v \in Ordinals \ {rootNodeOrdinal} :
              pageFlag(v) => dominatorsTree[v] = rootNodeOrdinal \/ pageFlag(dominatorsTree[v])

\* the same with the root at ordinal 0 only
GatedEdgesAreIgnoredUnderTheFirstRoot ==
    (initialized /\ rootNodeOrdinal = 0) =>
        /\ reachable(ungatedEdges, {}) = Ordinals =>
              \A v \in Ordinals \ {rootNodeOrdinal} : dominatorsTree[v] = immediateDominatorUngated(v)
        /\ \A v \in Ordinals \ {rootNodeOrdinal} :
              pageFlag(v) => dominatorsTree[v] = rootNodeOrdinal \/ pageFlag(dominatorsTree[v])

\* ------------------------------------------------------------------ C24
\* the proper ancestors of a node in the dominator tree, by node index
RECURSIVE dominatorChain(_, _)
dominatorChain(ordinal, steps) ==
    IF ordinal = rootNodeOrdinal \/ steps = 0 THEN {}
    ELSE {dominatorsTree[ordinal] * nodeFieldCount} \cup dominatorChain(dominatorsTree[ordinal], steps - 1)
properAncestors(v) == dominatorChain(v \div nodeFieldCount, nodeCount) \ {v}

\* the surviving nodes of a class without a surviving ancestor of the class
topmostOf(c) == {v \in survivorsOf(c) : properAncestors(v) \cap survivorsOf(c) = {}}

RECURSIVE retainedSizeOfAll(_)
retainedSizeOfAll(S) ==
    IF S = {} THEN 0
    ELSE LET v == CHOOSE x \in S : TRUE IN retainedSizes[v \div nodeFieldCount] + retainedSizeOfAll(S \ {v})

\* the class of a record: that of its nodes
classOfRecord(record) == classIndex(record.idxs[1])

\* maxRet of every record is the retained size of the topmost survivors of its class
maxRetOfTopmost ==
    \A n \in DOMAIN reply.value :
        reply.value[n].maxRet = retainedSizeOfAll(topmostOf(classOfRecord(reply.value[n])))

\* C24: for every class maxRet is the sum of the retained sizes of the nodes
\* of the class that pass the filter and take space and have no proper
\* ancestor in the dominator tree that is of the class, passes the filter and
\* takes space; so maxRet never exceeds the retained size of the root.
C24_MaxRetOfTopmostNodes ==
    aggregatesAnswered =>
        /\ maxRetOfTopmost
        /\ \A n \in DOMAIN reply.value : reply.value[n].maxRet <= retainedSizes[rootNodeOrdinal]

\* the first half alone
MaxRetIsOfTopmostNodes == aggregatesAnswered => maxRetOfTopmost

\* the whole statement wherever the retained size of the root is the sum of
\* all self sizes
MaxRetBelowTheSumOfSelfSizes ==
    (aggregatesAnswered /\ retainedSizes[rootNodeOrdinal] = sumSelfSizes(0)) =>
        /\ maxRetOfTopmost
        /\ \A n \in DOMAIN reply.value : reply.value[n].maxRet <= retainedSizes[rootNodeOrdinal]

\* ------------------------------------------------------------------ C25
\* the distances of the retainers view by ordinal
retainersViewDistance(v) == nodeDistancesForRetainersView[1][v]

\* the internal edges with a WeakMap pair name, by edge number
weakMapPairEdges == {k \in EdgeNumbers : weakMapPart(k * edgeFieldsCount) # undefined}

\* some unreachable node has a pair edge into the target of k with the pair description of k
pairedWithUnreachable(k) ==
    \E j \in weakMapPairEdges :
        /\ retainersViewDistance(edgeSource(j)) = noDistance
        /\ edgeTarget(j) = edgeTarget(k)
        /\ weakMapPart(j * edgeFieldsCount) = weakMapPart(k * edgeFieldsCount)

\* the retainer edge of the last serialize or getValueForSorting('!edgeDistance') call
retainerEdgeAsked ==
    /\ initialized /\ called # <<>> /\ reply.threw = ""
    /\ called.name \in {"HeapSnapshotRetainerEdge.serialize", "HeapSnapshotRetainerEdge.getValueForSorting"}
distanceGiven ==
    IF called.name = "HeapSnapshotRetainerEdge.serialize" THEN reply.value.node.distance ELSE reply.value

\* C25: while some nodes are ignored in the retainers view, an edge is ignored
\* exactly when it is an internal edge with a WeakMap pair name into a target
\* and some node without a distance in the retainers view has an internal
\* WeakMap pair edge into that target with the same pair description; an
\* ignored retainer edge is serialized and sorted with the distance
\* baseUnreachableDistance.
C25_IgnoredEdgesArePairsOfUnreachable ==
    /\ (initialized /\ ignoredNodesInRetainersView # {}) =>
           \A k \in EdgeNumbers :
               k * edgeFieldsCount \in ignoredEdgesInRetainersView
                   <=> (k \in weakMapPairEdges /\ pairedWithUnreachable(k))
    /\ (retainerEdgeAsked /\ retainingEdges[called.retainerIndex] \in ignoredEdgesInRetainersView) =>
           distanceGiven = baseUnreachableDistance

\* the pair edge of a table that is reachable is ignored with the pair edge of
\* an ignored key, and it is serialized at the unreachable distance though
\* the table has a distance
C25_Witness ==
    /\ retainerEdgeAsked /\ called.name = "HeapSnapshotRetainerEdge.serialize"
    /\ ignoredNodesInRetainersView # {}
    /\ retainingEdges[called.retainerIndex] \in ignoredEdgesInRetainersView
    /\ retainersViewDistance(retainingNodes[called.retainerIndex] \div nodeFieldCount) # noDistance
    /\ reply.value.node.distance = baseUnreachableDistance
    /\ ~reply.value.node.ignored

\* ------------------------------------------------------------------ C26
\* the items of the providers of retainers: those of each node
providersItems == {retainerItems(nodeIndex) : nodeIndex \in NodeIndexes}
retainerName(item) == edgeName(retainingEdges[item])
retainerHasStringName(item) == hasStringName(retainingEdges[item])

\* a before b, by the comparator
sortsBefore(comparator, a, b) == compareEdges(comparator, a, b) < 0

\* the comparator is a strict total order on the items: of two distinct
\* items exactly one is before the other, and before is transitive
strictTotalOrder(comparator, items) ==
    /\ \A a, b \in items : a # b => (sortsBefore(comparator, a, b) <=> ~sortsBefore(comparator, b, a))
    /\ \A a, b, c \in items :
           (sortsBefore(comparator, a, b) /\ sortsBefore(comparator, b, c)) => sortsBefore(comparator, a, c)

\* the order of the names under '!edgeName', ascending or descending
orderOfNames(comparator, items) ==
    \A a, b \in items :
        LET ahead == IF comparator.ascending1 THEN sortsBefore(comparator, a, b)
                     ELSE sortsBefore(comparator, b, a)
        IN  /\ (retainerName(a) # StrProto /\ retainerName(b) = StrProto) => sortsBefore(comparator, a, b)
            /\ (retainerName(a) # StrProto /\ retainerName(b) # StrProto) =>
                   /\ (retainerHasStringName(a) /\ ~retainerHasStringName(b)) => ahead
                   /\ (retainerHasStringName(a) = retainerHasStringName(b)
                          /\ stringLess(retainerName(a), retainerName(b))) => ahead

\* C26: the two-field comparator of HeapSnapshotEdgesProvider.sort is a strict
\* total order on the items of the provider: of two distinct items exactly
\* one sorts before the other, and the order is transitive; under '!edgeName'
\* an edge named '__proto__' sorts after every edge of another name,
\* string-named edges sort before index-named edges and otherwise the names
\* sort lexicographically.
C26_ComparatorIsStrictTotalOrder ==
    initialized =>
        \A items \in providersItems : \A comparator \in EdgeComparatorConfigs :
            /\ strictTotalOrder(comparator, items)
            /\ comparator.fieldName1 = "!edgeName" => orderOfNames(comparator, items)

\* the same for the providers with at most one item named '__proto__'
StrictTotalOrderWithOneProto ==
    initialized =>
        \A items \in {i \in providersItems : Cardinality({a \in i : retainerName(a) = StrProto}) <= 1} :
            \A comparator \in EdgeComparatorConfigs :
                /\ strictTotalOrder(comparator, items)
                /\ comparator.fieldName1 = "!edgeName" => orderOfNames(comparator, items)

\* ------------------------------------------------------------------ C27
\* the nodes the depth-first round from the root does not reach
appended == Ordinals \ reachable(essentialEdges, {})

\* C27: buildDominatorTree terminates on every snapshot: the loop over the
\* changed entries and every walk of two dominator chains end, so the call
\* returns and the next pass follows, also when the post-order holds nodes
\* that the later rounds of buildPostOrderIndex appended.
C27_BuildDominatorTreeTerminates ==
    [][pc = "buildDominatorTree" => pc' = "calculateShallowSizes"]_vars

\* no run is left in buildDominatorTree
NeverDiverged == pc # "diverged"

\* buildDominatorTree has returned on a post-order with appended nodes out of
\* order: an appended node is dominated by an appended node that comes
\* before it in post-order, and it has two retainers, so that chains were
\* intersected
C27_Witness ==
    /\ pc = "calculateShallowSizes"
    /\ \E k \in essentialEdges :
          /\ edgeSource(k) \in appended /\ edgeTarget(k) \in appended
          /\ nodeOrdinal2PostOrderIndex[edgeSource(k)] < nodeOrdinal2PostOrderIndex[edgeTarget(k)]
          /\ dominatorsTree[edgeTarget(k)] = edgeSource(k)
          /\ edgeSource(k) # rootNodeOrdinal
          /\ \E j \in essentialEdges : edgeTarget(j) = edgeTarget(k) /\ edgeSource(j) \notin {edgeSource(k), edgeTarget(k)}

\* ------------------------------------------------------------------ C28
\* the loop of calculateShallowSizes with its pushes written down: the
\* seeding pushes a self-owned node with its own ordinal as owner, and an
\* entry pushes what ownEdges appends to the worklist; a push is
\* [id, from, to] with the owner before and after it
WorklistFuel == 12

seededPushes == [k \in 1 .. Len(ascending(selfOwned, 0)) |->
                    [id |-> ascending(selfOwned, 0)[k], from |-> ascending(selfOwned, 0)[k],
                     to |-> ascending(selfOwned, 0)[k]]]

RECURSIVE worklistPushes(_, _, _)
worklistPushes(w, pushes, fuel) ==
    IF w.worklist = <<>> THEN [emptied |-> TRUE, pushes |-> pushes]
    ELSE IF fuel = 0 THEN [emptied |-> FALSE, pushes |-> pushes]
    ELSE LET id == w.worklist[Len(w.worklist)]
             popped == [w EXCEPT !.worklist = SubSeq(w.worklist, 1, Len(w.worklist) - 1)]
             pushed(after) ==
                 worklistPushes(after,
                                pushes \o [k \in 1 .. Len(after.worklist) - Len(popped.worklist) |->
                                              [id |-> after.worklist[Len(popped.worklist) + k],
                                               from |-> w.owners[after.worklist[Len(popped.worklist) + k]],
                                               to |-> after.owners[after.worklist[Len(popped.worklist) + k]]]],
                                fuel - 1)
         IN  pushed(ownEdges(popped, w.owners[id], firstEdgeIndexes[id], firstEdgeIndexes[id + 1]))

pushesOfWorklist ==
    worklistPushes([owners |-> [i \in 0 .. nodeCount - 1 |-> IF i \in selfOwned THEN i ELSE kUnvisited],
                    worklist |-> ascending(selfOwned, 0)],
                   seededPushes, WorklistFuel)

pushesOf(r, i) == { k \in 1 .. Len(r.pushes) : r.pushes[k].id = i }

\* calculateShallowSizes is about to run, or has run, past the test of the
\* user roots
ownersPropagated == pc \in {"calculateShallowSizes", "calculateRetainedSizes"} /\ hasUserRoots

worklistEmptiesWith(r) ==
    /\ r.emptied
    /\ \A i \in 0 .. nodeCount - 1 :
           IF i \in selfOwned
           THEN /\ Cardinality(pushesOf(r, i)) = 1
                /\ \A k \in pushesOf(r, i) : k <= Len(seededPushes)
           ELSE /\ Cardinality(pushesOf(r, i)) <= 2
                /\ \A k \in pushesOf(r, i) :
                       \/ r.pushes[k].from = kUnvisited
                       \/ r.pushes[k].from \notin {kUnvisited, kHasMultipleOwners}
                          /\ r.pushes[k].to = kHasMultipleOwners
                /\ \A k, l \in pushesOf(r, i) : k < l =>
                       /\ r.pushes[k].from = kUnvisited /\ r.pushes[k].to \in selfOwned
                       /\ r.pushes[l].from = r.pushes[k].to /\ r.pushes[l].to = kHasMultipleOwners

\* C28: the worklist of calculateShallowSizes empties on every graph: a node
\* that is neither hidden nor an array is pushed once, at the seeding, and a
\* hidden or array node is pushed at most twice, first when its owner
\* changes from unvisited to an owner and then when it changes from that
\* owner to 'multiple owners'
C28_WorklistEmpties == ownersPropagated => worklistEmptiesWith(pushesOfWorklist)

\* a hidden or array node on a cycle of edges that are not weak was pushed
\* twice, and the sizes have been moved
pushedTwiceOnCycle(r) ==
    \E i \in (0 .. nodeCount - 1) \ selfOwned :
        /\ Cardinality(pushesOf(r, i)) = 2
        /\ \E k, j \in 0 .. edgeCount - 1 :
               /\ edgeSource(k) = i /\ edgeTarget(j) = i /\ edgeTarget(k) = edgeSource(j)
               /\ containmentEdges[k * edgeFieldsCount + edgeTypeOffset] # edgeWeakType
               /\ containmentEdges[j * edgeFieldsCount + edgeTypeOffset] # edgeWeakType

C28_Witness ==
    /\ pc = "calculateRetainedSizes"
    /\ hasUserRoots
    /\ pushedTwiceOnCycle(pushesOfWorklist)

\* ------------------------------------------------------------------ C29
\* the user roots the seeding loop of calculateDistances puts on the queue,
\* one for every edge of the root that leads to a user root
seededEdges ==
    { k \in 0 .. edgeCount - 1 :
        /\ edgeSource(k) = rootNodeOrdinal
        /\ isUserRoot(containmentEdges[k * edgeFieldsCount + edgeToNodeOffset]) }

seededTwice == \E k, j \in seededEdges : k # j /\ edgeTarget(k) = edgeTarget(j)

\* C29: calculateDistances never fails with 'BFS failed': a node is put on
\* the queue at most once in each of the two phases, also where several
\* edges lead from the root to one user root or an edge leads back to the
\* root
C29_NeverBFSFailed == error # "BFS failed"

\* without two edges from the root to one user root the search does not
\* fail, and an edge that leads back to the root does no harm
NeverBFSFailedOfSingleSeeds == pc \notin {"buildEdgeIndexes"} /\ ~seededTwice => error # "BFS failed"

\* the search has run over an edge from a user root back to the root
EdgeBackToTheRootSearched ==
    /\ pc = "buildPostOrderIndex"
    /\ \E k \in 0 .. edgeCount - 1 :
           /\ edgeTarget(k) = rootNodeOrdinal /\ edgeSource(k) # rootNodeOrdinal
           /\ containmentEdges[k * edgeFieldsCount + edgeTypeOffset] # edgeWeakType
           /\ nodeDistances[edgeSource(k)] = 1

\* ------------------------------------------------------------------ C30
\* the nodes whose class index is the index of their own name
plainlyNamed(v) ==
    /\ rawType(v) \in {nodeObjectType, nodeNativeType}
    /\ ~startsWith(strings[nodes[v + nodeNameOffset]], "<")
    /\ ~startsWith(strings[nodes[v + nodeNameOffset]], "Detached <")

classIndexPerName ==
    \A u, v \in NodeIndexes : className(u) = className(v) => classIndex(u) = classIndex(v)

domLinkStateKept ==
    \A v \in NodeIndexes :
        BitAnd(nodes'[v + nodeDetachednessAndClassIndexOffset], BITMASK_FOR_DOM_LINK_STATE)
            = BitAnd(nodes[v + nodeDetachednessAndClassIndexOffset], BITMASK_FOR_DOM_LINK_STATE)

\* C30: after calculateObjectNames any two nodes with equal class names have
\* the same class index, whichever rule gave them their class (a fixed name,
\* an interned '<tag>' name, or the name index of a plain object), and the
\* writing of the class index leaves the DOM link state in the low 2 bits
\* of every node as it was
C30_OneClassIndexPerName ==
    [][pc = "calculateObjectNames" => classIndexPerName' /\ domLinkStateKept]_vars

\* the writing of the class index keeps the DOM link state of every node
DOMLinkStateKept == [][pc = "calculateObjectNames" => domLinkStateKept]_vars

\* no node named by its own name bears the class name of a node of another rule
ownNamesApart ==
    \A u, v \in NodeIndexes : plainlyNamed(u) /\ ~plainlyNamed(v) => className(u) # className(v)

\* apart from such a node equal class names have equal class indexes
OneClassIndexPerNameOfOwnNamesApart == pc = "done" /\ ownNamesApart => classIndexPerName
====
